---- MODULE Spec2Model ----
(***************************************************************************)
(* Paper-trading ledger and gate of the BTC trading agent                  *)
(* (app/engine.py, app/runner.py, app/risk/guardrails.py).                 *)
(*                                                                         *)
(* Amounts are exact fixed-point numbers:                                  *)
(*   price      in units of 10000 USD per BTC          (5 = 50000 USD)     *)
(*   size       in units of 10/11 USD                  (55 = 50 USD)       *)
(*   quantity   in units of 1/220000 BTC               (220 = 0.001 BTC)   *)
(*   cash, fee  in units of 1/22000 USD                (22000 = 1 USD)     *)
(*   confidence in hundredths                          (90 = 0.90)         *)
(*   time       in whole seconds                                           *)
(* so that notional = price*qty, fee = notional*fee_bps/10000 and          *)
(* qty = size/price are exact.  The tolerances 1e-8 USD and 1e-12 BTC of   *)
(* paper_fill are smaller than one unit: on this grid  a + eps < b  is     *)
(* a < b, and  x >= -eps  is  x >= 0.                                      *)
(***************************************************************************)
EXTENDS Integers, Sequences, FiniteSets, TLC

VARIABLES
    st,       \* portfolio_state.json, as load_state() returns it
    trades,   \* state/trades.csv            (report rows)
    ledger,   \* state/trades_with_balances.csv (raw audit rows)
    mem,      \* module globals of guardrails_regime.py
    env,      \* os.environ, fixed for the life of the process
    clock,    \* time.time()
    accepted, \* history: time of the last accepted try_execute_trade per side
    last      \* the most recent call: its inputs, its result, the state before it

vars == <<st, trades, ledger, mem, env, clock, accepted, last>>

-----------------------------------------------------------------------------
(* Bounds of the model *)
MaxRows == 4
MaxFills == 3
MaxClock == 10

(* Python's None for numeric fields (all of them are >= 0 when set) *)
NoneVal == 0 - 1

Max(a, b) == IF a >= b THEN a ELSE b
Min(a, b) == IF a <= b THEN a ELSE b

-----------------------------------------------------------------------------
(* Units *)
Prices == {4, 5}
PriceLcm == 4 * 5
CashPerSize == PriceLcm * 1000
CashPerUsd == (CashPerSize * 11) \div 10
Usd(x) == x * CashPerUsd
UsdToSize(x) == (x * 11) \div 10
QtyOf(size, price) == (size * PriceLcm) \div price

-----------------------------------------------------------------------------
(* Program constants (defaults in the source) *)
DEFAULT_CASH_USD == 10000
FEE_BPS_DEFAULT == 10
MIN_CONF == 45
MAX_SPREAD_BPS == 12
MAX_POSITION_USD == 3000
MIN_NOTIONAL_USD == 10
MAX_TRADE_USD == 50
SIZE_FLOOR_USD == 10
COOLDOWN_NO_ATR == 10
COOLDOWN_MIN_SEC == 5
COOLDOWN_MAX_SEC == 60
FLIP_HYSTERESIS == 10
DCA_DROP_PCT == 3
DCA_LOT_USD == 50
DCA_MIN_COOLDOWN_MIN == 60
LLM_SIZE_USD == 300
FALLBACK_DCA_LOT_USD == 25

-----------------------------------------------------------------------------
(* engine.py: state file *)
DefaultState ==
    [cash_usd |-> Usd(DEFAULT_CASH_USD), btc |-> 0,
     last_dca_price |-> NoneVal, last_dca_ts |-> NoneVal,
     trades_today |-> 0, trades_today_date |-> NoneVal,
     last_trade_ts |-> NoneVal, last_side |-> "None", last_conf |-> NoneVal]

(* str.lower() and str.upper() on the side names the callers use *)
Lower(s) ==
    CASE s = "BUY" -> "buy" [] s = "SELL" -> "sell" [] s = "HOLD" -> "hold"
      [] OTHER -> s
Upper(s) ==
    CASE s = "buy" -> "BUY" [] s = "sell" -> "SELL" [] s = "hold" -> "HOLD"
      [] OTHER -> s

(* engine.py:157-158.  notional is a multiple of 1000 units and fee_bps a    *)
(* multiple of 10, so notional * (fee_bps / 10000) is exact in this order.  *)
Notional(price, qty) == price * qty * 1000
FeeUsd(notional, fee_bps) == (notional \div 1000) * (fee_bps \div 10)

(* engine.py:162 and :167, the two risk guards of paper_fill *)
InsufficientCash_off(s, cost) == FALSE
InsufficientCash(s, cost) == s.cash_usd < cost
InsufficientBtc(s, qty) == s.btc < qty

(* engine.py:164-165 and :169-170, the balance update *)
ApplyBuy(s, notional, fee, qty) ==
    [s EXCEPT !.cash_usd = @ - (notional + fee), !.btc = @ + qty]
ApplySell_feeAdded(s, notional, fee, qty) ==
    [s EXCEPT !.btc = @ - qty, !.cash_usd = @ + (notional + fee)]
ApplySell(s, notional, fee, qty) ==
    [s EXCEPT !.btc = @ - qty, !.cash_usd = @ + (notional - fee)]

(* engine.py:142-212, paper_fill up to its return value: ok, the reason or   *)
(* "fill", the state it would save, and the row it would append.             *)
paper_fill(s, side0, reason0, price, qty, fee_bps) ==
    LET side == Lower(side0)
        reason == Upper(reason0)
        notional == Notional(price, qty)
        fee == FeeUsd(notional, fee_bps)
        row == [side |-> side, source |-> reason]
        no(why) == [ok |-> FALSE, info |-> why, s |-> s, row |-> row, fee |-> fee]
    IN  IF side = "buy" THEN
            IF InsufficientCash(s, notional + fee) THEN no("Insufficient cash")
            ELSE [ok |-> TRUE, info |-> "fill",
                  s |-> ApplyBuy(s, notional, fee, qty), row |-> row, fee |-> fee]
        ELSE IF side = "sell" THEN
            IF InsufficientBtc(s, qty) THEN no("Insufficient BTC")
            ELSE [ok |-> TRUE, info |-> "fill",
                  s |-> ApplySell(s, notional, fee, qty), row |-> row, fee |-> fee]
        ELSE no("Unknown side")

(* engine.py:178-199: the two rows are appended only on the accepted path *)
RowsAfter_always(r, rows) == Append(rows, r.row)
RowsAfter(r, rows) == IF r.ok THEN Append(rows, r.row) ELSE rows
(* engine.py:201: save_state is reached only on the accepted path *)
SavedAfter(r, s0) == IF r.ok THEN r.s ELSE s0

-----------------------------------------------------------------------------
(* engine.py:255-259, _adaptive_cooldown_sec; int() of a value >= 5 truncates *)
_adaptive_cooldown_sec(atr) ==
    IF atr = NoneVal \/ atr = 0 THEN COOLDOWN_NO_ATR
    ELSE Max(COOLDOWN_MIN_SEC, Min(COOLDOWN_MAX_SEC, atr \div 2))

(* engine.py:283, :286 and :288 *)
InCooldown_never(elapsed, cd) == FALSE
InCooldown(elapsed, cd) == elapsed < cd
SideSwitched(last_side, side) ==
    (IF last_side = "None" THEN side ELSE last_side) # side
FlipConfOk_strict(conf, last_conf) == conf > last_conf + FLIP_HYSTERESIS
FlipConfOk(conf, last_conf) == conf >= last_conf + FLIP_HYSTERESIS

(* engine.py:261-295, allow_trade: "ok", or the reason it appends *)
allow_trade(ctx, side, conf) ==
    IF conf < ctx.min_conf THEN "conf"
    ELSE IF side = "buy" /\ ctx.position_usd >= ctx.max_position_usd THEN "pos_cap"
    ELSE IF ctx.spread_bps # NoneVal /\ ctx.spread_bps > ctx.max_spread_bps
         THEN "spread"
    ELSE IF ctx.last_ts # NoneVal
            /\ InCooldown(Max(0, ctx.now_ts - ctx.last_ts),
                          _adaptive_cooldown_sec(ctx.atr))
            /\ ~ ( /\ ctx.allow_side_switch
                   /\ SideSwitched(ctx.last_side, side)
                   /\ ctx.last_conf # NoneVal
                   /\ FlipConfOk(conf, ctx.last_conf) )
         THEN "cooldown"
    ELSE "ok"

(* engine.py:305-308, build_order's size_usd in size units:                  *)
(* k = max(0.2, min(1.0, (conf - 0.45) / 0.55)) is Kx55(conf) / 55           *)
Kx55(conf) == Max(11, Min(55, conf - MIN_CONF))
build_order_size(conf) ==
    Max(UsdToSize(SIZE_FLOOR_USD),
        Min(UsdToSize(MAX_TRADE_USD),
            (Kx55(conf) * UsdToSize(MAX_TRADE_USD)) \div 55))

(* engine.py:363-374, the GateContext try_execute_trade builds *)
GateContext(s, now, price, atr, spread) ==
    [now_ts |-> now, last_ts |-> s.last_trade_ts, last_side |-> s.last_side,
     last_conf |-> s.last_conf, atr |-> atr, spread_bps |-> spread,
     position_usd |-> Notional(price, s.btc),
     max_position_usd |-> Usd(MAX_POSITION_USD),
     max_spread_bps |-> MAX_SPREAD_BPS, min_conf |-> MIN_CONF,
     allow_side_switch |-> env.ALLOW_SIDE_SWITCH]

(* engine.py:395-399: try_execute_trade saves the dict it loaded at :344    *)
(* (before paper_fill ran) with the three last_* fields set.                *)
SaveLast(loaded, now, side, conf) ==
    [loaded EXCEPT !.last_trade_ts = now, !.last_side = side, !.last_conf = conf]

(* runner.py:140-151, _mark_trade on the state it reloads *)
_mark_trade(s, now) ==
    LET today == now \div 86400
        d == IF s.trades_today_date # today
             THEN [s EXCEPT !.trades_today_date = today, !.trades_today = 0]
             ELSE s
    IN  [d EXCEPT !.trades_today = @ + 1, !.last_trade_ts = now]

(* strategies/dca.py:32-47 *)
_drop_hit(state, price, drop_pct) ==
    IF state.last_dca_price = NoneVal \/ state.last_dca_price = 0 THEN TRUE
    ELSE price * 100 <= state.last_dca_price * (100 - drop_pct)
_cooldown_ok_always(state, now, min_minutes) == TRUE
_cooldown_ok(state, now, min_minutes) ==
    IF state.last_dca_ts = NoneVal THEN TRUE
    ELSE now - state.last_dca_ts >= min_minutes * 60
dca_fires(state, now, price) ==
    /\ _drop_hit(state, price, DCA_DROP_PCT)
    /\ _cooldown_ok(state, now, DCA_MIN_COOLDOWN_MIN)
    /\ DCA_LOT_USD > 0

(* runner.py:216-219, the DCA anchor update on the state it reloads *)
SetDcaAnchor(s, now, price) ==
    [s EXCEPT !.last_dca_price = price, !.last_dca_ts = now]

(* round(x, 2) of a non-negative amount in cash units (one cent = 220)      *)
Round2(x) == ((x + (CashPerUsd \div 200)) \div (CashPerUsd \div 100))
             * (CashPerUsd \div 100)

(* runner.py:283-299 and :309, the decision's size after the fallbacks, in   *)
(* cash units: a SELL is sized from the holdings, a BUY from the DCA lot     *)
SizeAfterFallback(action, size_usd, state, px) ==
    IF action \in {"BUY", "SELL"} /\ size_usd <= 0 THEN
        LET fallback == IF action = "SELL"
                        THEN Min(Usd(LLM_SIZE_USD), Notional(px, state.btc))
                        ELSE Usd(FALLBACK_DCA_LOT_USD)
        IN  IF fallback > 0 THEN Round2(fallback) ELSE Usd(size_usd)
    ELSE Usd(size_usd)

(* runner.py:310 *)
HoldOrZero_and(action, size) == action \notin {"BUY", "SELL"} /\ size <= 0
HoldOrZero(action, size) == action \notin {"BUY", "SELL"} \/ size <= 0

(* risk/guardrails.py:17-21, global_pause: <<passed, reason>> as run_once   *)
(* reads the pair                                                           *)
global_pause(e) ==
    IF e.GLOBAL_PAUSE THEN <<TRUE, "global_pause_switch">> ELSE <<FALSE, "ok">>
(* runner.py:340-345 *)
_normalize_guard(res) ==
    IF ~res[1] /\ res[2] = "ok" THEN <<TRUE, res[2]>> ELSE res

-----------------------------------------------------------------------------
NoCall ==
    [op |-> "init", side |-> "None", price |-> 0, qty |-> 0, fee_bps |-> 0,
     fee |-> 0, conf |-> 0, atr |-> NoneVal, spread |-> NoneVal, size |-> 0,
     ok |-> FALSE, info |-> "", gate |-> "", now |-> 0,
     pre_st |-> DefaultState, pre_trades |-> <<>>, pre_ledger |-> <<>>,
     fill_st |-> DefaultState, prev_same |-> NoneVal,
     dca |-> FALSE, dca_st |-> DefaultState,
     dca_trades |-> <<>>, dca_ledger |-> <<>>]

Envs == [GLOBAL_PAUSE : BOOLEAN, ALLOW_SIDE_SWITCH : {TRUE}]

Init ==
    /\ st = DefaultState
    /\ trades = <<>>
    /\ ledger = <<>>
    /\ mem = [last_buy_time |-> NoneVal, last_sell_time |-> NoneVal,
              daily_buy_spend |-> 0, daily_buy_day |-> NoneVal]
    /\ env \in Envs
    /\ clock = 0
    /\ accepted = [buy |-> NoneVal, sell |-> NoneVal]
    /\ last = NoCall

(* runner.py:517: the loop sleeps at least 5 seconds between two ticks; the   *)
(* model's clock advances in steps of that length                           *)
TICK_SEC == 5
Tick ==
    /\ clock + TICK_SEC <= MaxClock
    /\ clock' = clock + TICK_SEC
    /\ UNCHANGED <<st, trades, ledger, mem, env, accepted, last>>

-----------------------------------------------------------------------------
(* A direct call of paper_fill (engine.py:142-212) that runs to its return. *)
Sides == {"buy", "sell", "hold"}
Qtys == {220, 44000}
FeeBps == {0, 10, 100}

PaperFill(side, price, qty, fee_bps) ==
    LET r == paper_fill(st, side, "MANUAL", price, qty, fee_bps)
    IN  /\ Len(trades) < MaxFills
        /\ st' = SavedAfter(r, st)
        /\ trades' = RowsAfter(r, trades)
        /\ ledger' = RowsAfter(r, ledger)
        /\ last' = [NoCall EXCEPT !.op = "paper_fill", !.side = Lower(side),
                        !.price = price, !.qty = qty, !.fee_bps = fee_bps,
                        !.fee = r.fee, !.ok = r.ok, !.info = r.info,
                        !.pre_st = st, !.pre_trades = trades,
                        !.pre_ledger = ledger, !.fill_st = SavedAfter(r, st)]
        /\ UNCHANGED <<mem, env, clock, accepted>>

(* A call of paper_fill that an I/O error (OSError from open/write) ends     *)
(* after the report row (engine.py:179-187) or after the audit row          *)
(* (engine.py:190-199); save_state (engine.py:201) is not reached.          *)
AbortPoints == {"after_report_row", "after_audit_row"}

PaperFillAbort(at, side, price, qty) ==
    LET r == paper_fill(st, side, "MANUAL", price, qty, FEE_BPS_DEFAULT)
    IN  /\ Len(trades) < MaxFills
        /\ r.ok
        /\ trades' = Append(trades, r.row)
        /\ ledger' = IF at = "after_audit_row" THEN Append(ledger, r.row)
                     ELSE ledger
        /\ st' = st
        /\ last' = [NoCall EXCEPT !.op = "paper_fill_abort", !.side = Lower(side),
                        !.price = price, !.qty = qty,
                        !.fee_bps = FEE_BPS_DEFAULT, !.fee = r.fee,
                        !.ok = FALSE, !.info = at,
                        !.pre_st = st, !.pre_trades = trades,
                        !.pre_ledger = ledger, !.fill_st = st]
        /\ UNCHANGED <<mem, env, clock, accepted>>

NextLedger ==
    \/ \E side \in Sides, price \in Prices, qty \in Qtys, fee_bps \in FeeBps :
           PaperFill(side, price, qty, fee_bps)
    \/ \E at \in AbortPoints, side \in {"buy", "sell"}, price \in Prices,
          qty \in Qtys :
           PaperFillAbort(at, side, price, qty)

SpecLedger == Init /\ [][NextLedger]_vars

-----------------------------------------------------------------------------
(* engine.py:322-401, try_execute_trade *)
Confs == {40, 50, 60, 69, 90}
Atrs == {NoneVal, 8}
Spreads == {5, 20}
(* the price of the ticks: the higher of Prices, 50000 USD *)
TradePrice == CHOOSE p \in Prices : \A q \in Prices : p >= q

TryExecuteTrade(side0, conf, price, atr, spread) ==
    LET side == Lower(side0)
        s == st
        now == clock
        size == build_order_size(conf)
        gate == allow_trade(GateContext(s, now, price, atr, spread), side, conf)
        qty == QtyOf(size, price)
        r == paper_fill(st, side, "LLM", price, qty, FEE_BPS_DEFAULT)
        info == IF side \notin {"buy", "sell"} THEN "invalid side"
                ELSE IF size < UsdToSize(MIN_NOTIONAL_USD) THEN "min_notional"
                ELSE IF gate # "ok" THEN gate
                ELSE r.info
        filled == info = "fill"
    IN  /\ filled => Len(trades) < MaxRows
        /\ st' = IF filled THEN SaveLast(s, now, side, conf) ELSE st
        /\ trades' = IF filled THEN RowsAfter(r, trades) ELSE trades
        /\ ledger' = IF filled THEN RowsAfter(r, ledger) ELSE ledger
        /\ accepted' = IF filled THEN [accepted EXCEPT ![side] = now]
                       ELSE accepted
        /\ last' = [NoCall EXCEPT !.op = "try_execute_trade", !.side = side,
                        !.price = price, !.qty = qty,
                        !.fee_bps = FEE_BPS_DEFAULT, !.fee = r.fee,
                        !.conf = conf, !.atr = atr, !.spread = spread,
                        !.size = size, !.ok = filled, !.info = info,
                        !.now = now,
                        !.gate = IF side \in {"buy", "sell"} THEN gate ELSE "",
                        !.pre_st = st, !.pre_trades = trades,
                        !.pre_ledger = ledger,
                        !.fill_st = IF filled THEN r.s ELSE st,
                        !.prev_same = IF side \in {"buy", "sell"}
                                      THEN accepted[side] ELSE NoneVal]
        /\ UNCHANGED <<mem, env, clock>>

-----------------------------------------------------------------------------
(* runner.py:171-321, run_once.  The advisor's decision is an input; the     *)
(* name detect_regime_from_1m (runner.py:321) is not bound in runner.py, so *)
(* a tick whose decision is not hold/zero-sized ends there with NameError.  *)
Actions == {"buy", "sell", "hold"}
DecisionSizes == {0, 300}

RunOnce(price, action0, size_usd) ==
    LET state0 == st
        now == clock
        fires == dca_fires(state0, now, price)
        r == paper_fill(st, "BUY", "DCA", price,
                        QtyOf(UsdToSize(DCA_LOT_USD), price), FEE_BPS_DEFAULT)
        dca == fires /\ r.ok
        dca_st == IF dca THEN SetDcaAnchor(_mark_trade(r.s, now), now, price)
                  ELSE st
        state == dca_st
        action == Upper(action0)
        size == SizeAfterFallback(action, size_usd, state, price)
        info == IF HoldOrZero(action, size) THEN "hold_noop" ELSE "NameError"
    IN  /\ dca => Len(trades) < MaxRows
        /\ st' = dca_st
        /\ trades' = IF dca THEN RowsAfter(r, trades) ELSE trades
        /\ ledger' = IF dca THEN RowsAfter(r, ledger) ELSE ledger
        /\ last' = [NoCall EXCEPT !.op = "run_once", !.side = action,
                        !.price = price, !.size = size,
                        !.ok = FALSE, !.info = info, !.now = now,
                        !.pre_st = st, !.pre_trades = trades,
                        !.pre_ledger = ledger,
                        !.fill_st = IF dca THEN r.s ELSE st,
                        !.dca = dca, !.dca_st = dca_st,
                        !.dca_trades = IF dca THEN RowsAfter(r, trades) ELSE trades,
                        !.dca_ledger = IF dca THEN RowsAfter(r, ledger) ELSE ledger]
        /\ UNCHANGED <<mem, env, clock, accepted>>

Next ==
    \/ Tick
    \/ \E side \in {"buy", "sell"}, conf \in Confs :
           TryExecuteTrade(side, conf, TradePrice, NoneVal, NoneVal)
    \/ \E side \in {"buy", "sell"}, atr \in Atrs \ {NoneVal} :
           TryExecuteTrade(side, 90, TradePrice, atr, NoneVal)
    \/ \E side \in {"buy", "sell"}, spread \in Spreads :
           TryExecuteTrade(side, 90, TradePrice, NoneVal, spread)
    \/ TryExecuteTrade("hold", 90, TradePrice, NoneVal, NoneVal)
    \/ \E action \in Actions, size_usd \in DecisionSizes :
           RunOnce(TradePrice, action, size_usd)

Spec == Init /\ [][Next]_vars
-----------------------------------------------------------------------------
(* Claims about paper_fill, checked under SpecLedger                        *)

C2_EquityChangesByFee ==
    (last.op = "paper_fill" /\ last.ok) =>
        LET pq == last.price * last.qty * 1000
            fee == (last.price * last.qty * last.fee_bps) \div 10
            pre == last.pre_st
        IN  /\ st.cash_usd + last.price * st.btc * 1000
                   = pre.cash_usd + last.price * pre.btc * 1000 - fee
            /\ last.side = "buy" =>
                   /\ st.cash_usd = pre.cash_usd - (pq + fee)
                   /\ st.btc = pre.btc + last.qty
            /\ last.side = "sell" =>
                   /\ st.btc = pre.btc - last.qty
                   /\ st.cash_usd = pre.cash_usd + (pq - fee)
(* an accepted SELL that pays a fee *)
C2_Witness ==
    /\ last.op = "paper_fill" /\ last.ok /\ last.side = "sell"
    /\ last.fee_bps > 0 /\ last.fee > 0

(* C3: a rejected paper_fill returns a failure value and leaves the          *)
(* persisted state and both trade logs exactly as they were.                 *)
C3_RejectLeavesAllUnchanged ==
    (last.op = "paper_fill" /\ ~last.ok) =>
        /\ last.info \in {"Insufficient cash", "Insufficient BTC", "Unknown side"}
        /\ st = last.pre_st
        /\ trades = last.pre_trades
        /\ ledger = last.pre_ledger
(* a SELL of more BTC than an earlier fill bought *)
C3_Witness ==
    /\ last.op = "paper_fill" /\ ~last.ok /\ last.info = "Insufficient BTC"
    /\ st.btc > 0 /\ Len(trades) > 0

(* C4: whenever paper_fill has stopped, returned or aborted between two of  *)
(* its steps, each log holds a new row for the trade if and only if the      *)
(* trade's balance change is persisted.                                      *)
C4_RowIffBalancePersisted ==
    (last.op \in {"paper_fill", "paper_fill_abort"}) =>
        LET persisted == st.cash_usd # last.pre_st.cash_usd
                         \/ st.btc # last.pre_st.btc
        IN  /\ (trades # last.pre_trades) <=> persisted
            /\ (ledger # last.pre_ledger) <=> persisted
-----------------------------------------------------------------------------
(* Claims about try_execute_trade and run_once, checked under Spec          *)

(* C5: the bookkeeping writes that follow a fill (_mark_trade and the DCA    *)
(* anchor update in run_once, the last_* write of try_execute_trade) leave   *)
(* cash_usd and btc exactly as the preceding paper_fill persisted them.      *)
C5_BookkeepingKeepsBalances ==
    ((last.op = "try_execute_trade" /\ last.ok)
        \/ (last.op = "run_once" /\ last.dca)) =>
        /\ st.cash_usd = last.fill_st.cash_usd
        /\ st.btc = last.fill_st.btc

(* C6: from cash = 10000, btc = 0 with MAX_TRADE_USD = 50, an approved BUY   *)
(* at price 50000 with confidence 0.9 through try_execute_trade ends with    *)
(* persisted btc = size_usd/50000 > 0, persisted cash = 10000 - size_usd -   *)
(* fee, and exactly one new ledger row, whose source is LLM.                 *)
C6_ExampleBuy ==
    ( /\ last.op = "try_execute_trade" /\ last.ok /\ last.side = "buy"
      /\ last.conf = 90 /\ last.price = 5
      /\ last.pre_st.cash_usd = Usd(10000) /\ last.pre_st.btc = 0 ) =>
        LET size_cash == last.size * CashPerSize
            fee == size_cash \div 1000
        IN  /\ st.btc = (last.size * PriceLcm) \div 5
            /\ st.btc > 0
            /\ st.cash_usd = Usd(10000) - size_cash - fee
            /\ Len(ledger) = Len(last.pre_ledger) + 1
            /\ ledger[Len(ledger)].source = "LLM"
            /\ Len(trades) = Len(last.pre_trades) + 1
            /\ trades[Len(trades)].source = "LLM"

(* The call was for the side of an earlier accepted try_execute_trade, less  *)
(* than the adaptive cooldown after it.                                      *)
SameSideInCooldown ==
    /\ last.op = "try_execute_trade"
    /\ last.side \in {"buy", "sell"}
    /\ last.prev_same # NoneVal
    /\ last.now - last.prev_same < _adaptive_cooldown_sec(last.atr)
CallLeftAllUnchanged ==
    /\ st = last.pre_st
    /\ trades = last.pre_trades
    /\ ledger = last.pre_ledger

SellInBuyCooldown ==
    /\ last.op = "try_execute_trade" /\ last.side = "sell"
    /\ last.pre_st.last_side = "buy"
    /\ last.pre_st.last_trade_ts # NoneVal
    /\ last.now - last.pre_st.last_trade_ts < _adaptive_cooldown_sec(last.atr)
    /\ env.ALLOW_SIDE_SWITCH
    /\ last.conf >= MIN_CONF
    /\ (last.spread = NoneVal \/ last.spread <= MAX_SPREAD_BPS)
C8_FlipHysteresis ==
    SellInBuyCooldown =>
        ((last.gate = "ok") <=> (last.conf >= last.pre_st.last_conf + 10))
(* the boundary: a SELL exactly 0.10 above the BUY passes the gate *)
C8_Witness ==
    /\ SellInBuyCooldown
    /\ last.conf = last.pre_st.last_conf + 10
    /\ last.gate = "ok"
(* a SELL 0.09 above the BUY is turned down for the cooldown *)
C8_WitnessReject ==
    /\ SellInBuyCooldown
    /\ last.conf = last.pre_st.last_conf + 9
    /\ last.gate = "cooldown"

(* C9: with GLOBAL_PAUSE set, the global_pause guard counts as a failing     *)
(* guard, and a tick whose decision is a sized BUY or SELL ends at the       *)
(* guards (gate_skip) before the executor or the market order is called.     *)
C9_PauseBlocks ==
    (env.GLOBAL_PAUSE /\ last.op = "run_once"
        /\ last.side \in {"BUY", "SELL"} /\ last.size > 0) =>
        /\ ~ _normalize_guard(global_pause(env))[1]
        /\ last.info = "gate_skip"

-----------------------------------------------------------------------------
(* The gates and helpers as functions of their arguments, checked under      *)
(* SpecGates: every action is one call, recorded in last.                    *)

REGIME_CHOP_RSI_MAX == 35
REGIME_CHOP_CONF_MIN == 60

(* guardrails_regime.py:279-317, regime_gate: the passed flag it returns.    *)
(* allow_soft is REGIME_CHOP_ALLOW_BUY, rsi is metrics["rsi14"] or None.     *)
regime_gate(action, conf, regime_label, rsi, allow_soft) ==
    LET side == Upper(action)
    IN  IF regime_label = "chop" /\ side = "BUY" THEN
            IF allow_soft
            THEN (rsi = NoneVal \/ rsi <= REGIME_CHOP_RSI_MAX)
                     /\ conf >= REGIME_CHOP_CONF_MIN
            ELSE FALSE
        ELSE TRUE

Regimes == {"bull", "bear", "chop"}
GateConfs == {10, 59, 60, 64, 65, 74, 75, 79, 80, 90}
Rsis == {NoneVal, 30, 40}

RegimeGate(action, conf, regime_label, rsi, allow_soft) ==
    /\ last' = [op |-> "regime_gate", side |-> Upper(action), conf |-> conf,
                regime |-> regime_label, rsi |-> rsi, allow_soft |-> allow_soft,
                ok |-> regime_gate(action, conf, regime_label, rsi, allow_soft)]
    /\ UNCHANGED <<st, trades, ledger, mem, env, clock, accepted>>

(* C11: regime_gate passes a BUY or SELL decision if and only if its         *)
(* confidence is at least the minimum of its (regime, side) pair: bull/buy   *)
(* 0.65, bull/sell 0.80, bear/sell 0.60, bear/buy 0.80, chop 0.75 (or chop   *)
(* always blocked).                                                          *)
RegimeMinConf(regime_label, side) ==
    CASE regime_label = "bull" /\ side = "BUY" -> 65
      [] regime_label = "bull" /\ side = "SELL" -> 80
      [] regime_label = "bear" /\ side = "SELL" -> 60
      [] regime_label = "bear" /\ side = "BUY" -> 80
      [] OTHER -> 75
C11_RegimeThresholds ==
    (last.op = "regime_gate" /\ last.side \in {"BUY", "SELL"}) =>
        IF last.regime = "chop"
        THEN ~last.ok \/ (last.ok <=> last.conf >= RegimeMinConf("chop", last.side))
        ELSE last.ok <=> last.conf >= RegimeMinConf(last.regime, last.side)

-----------------------------------------------------------------------------
(* advisor.py:27-50, coerce_to_schema.  A raw field is a tagged value:       *)
(* t = "num" (n in hundredths), "str" (the string s, not a numeral), "null"  *)
(* (None) or "missing" (key absent).                                        *)
Num(v) == [t |-> "num", n |-> v, s |-> ""]
Str(x) == [t |-> "str", n |-> 0, s |-> x]
Null == [t |-> "null", n |-> 0, s |-> ""]
Missing == [t |-> "missing", n |-> 0, s |-> ""]

SchemaStates == {"peak", "dip", "consolidation"}
SchemaActions == {"buy", "sell", "hold"}
RSI_DIP_BELOW == 32
RSI_PEAK_ABOVE == 70
CONF_DEFAULT_EDGE == 66
CONF_DEFAULT_FLAT == 55
LLM_STOP_ATR_K_DEFAULT == 130

(* advisor.py:45 and :47, float(x): a number converts, None and a            *)
(* non-numeric string raise TypeError / ValueError                           *)
FloatRaises(x) == x.t \in {"null", "str"}

coerce_to_schema(dec, rsi) ==
    IF dec.kind # "object" THEN [result |-> "None"]
    ELSE
    LET state == IF dec.state.t = "str" /\ dec.state.s \in SchemaStates
                 THEN dec.state.s
                 ELSE IF rsi < RSI_DIP_BELOW THEN "dip"
                 ELSE IF rsi > RSI_PEAK_ABOVE THEN "peak" ELSE "consolidation"
        action == IF dec.action.t = "str" /\ dec.action.s \in SchemaActions
                  THEN dec.action.s
                  ELSE IF state = "dip" THEN "buy"
                  ELSE IF state = "peak" THEN "sell" ELSE "hold"
        conf == IF dec.confidence.t = "num" THEN dec.confidence.n
                ELSE IF state \in {"peak", "dip"} THEN CONF_DEFAULT_EDGE
                ELSE CONF_DEFAULT_FLAT
        size == IF dec.size_usd.t = "missing" THEN Num(LLM_SIZE_USD * 100)
                ELSE dec.size_usd
        sak == IF dec.stop_atr_k.t = "missing" THEN Num(LLM_STOP_ATR_K_DEFAULT)
               ELSE dec.stop_atr_k
    IN  IF FloatRaises(size) THEN [result |-> "raise"]
        ELSE IF sak.t # "null" /\ FloatRaises(sak) THEN [result |-> "raise"]
        ELSE [result |-> "ok",
              out |-> [state |-> state, action |-> action,
                       confidence |-> Max(0, Min(100, conf)),
                       size_usd |-> size, stop_atr_k |-> sak]]

RawFields ==
    [kind : {"object"},
     state : {Str("dip"), Str("bull"), Missing},
     action : {Str("sell"), Str("BUY")},
     confidence : {Num(0 - 50), Num(50), Num(150), Str("high"), Missing},
     size_usd : {Num(30000), Missing, Null, Str("all")},
     stop_atr_k : {Num(130), Null, Str("tight")}]
RawOutputs == RawFields \cup {[kind |-> "string"], [kind |-> "list"]}
ObsRsis == {30, 50, 80}

CoerceToSchema(dec, rsi) ==
    /\ last' = [op |-> "coerce_to_schema", dec |-> dec, rsi |-> rsi,
                res |-> coerce_to_schema(dec, rsi)]
    /\ UNCHANGED <<st, trades, ledger, mem, env, clock, accepted>>

(* advisor.py:5-18, DECISION_SCHEMA on the five fields of the claim *)
SchemaValid(out) ==
    /\ out.state \in SchemaStates
    /\ out.action \in SchemaActions
    /\ out.confidence >= 0 /\ out.confidence <= 100
    /\ out.size_usd.t = "num"
    /\ out.stop_atr_k.t \in {"num", "null"}

(* C12: for every raw advisor output coerce_to_schema returns an object      *)
(* that satisfies the strict decision schema; it never raises and never      *)
(* returns null.                                                             *)
C12_NormalizerTotal ==
    (last.op = "coerce_to_schema") =>
        (last.res.result = "ok" /\ SchemaValid(last.res.out))

-----------------------------------------------------------------------------
(* engine.py:66-80, load_state on a state file with the given content:       *)
(* "absent" is created with the defaults by _init_files (engine.py:50-62);   *)
(* content json.loads cannot parse (or read_text cannot decode) gives the    *)
(* fallback of engine.py:73-80; anything json.loads parses is returned as    *)
(* it is.  doc is the parsed value of a well-formed state file.              *)
Unparseable == {"empty", "garbage_bytes", "truncated_object"}
ParseableNonState == {"json_null", "json_list", "json_number", "json_empty_object"}
FileContents == {"absent", "state"} \cup Unparseable \cup ParseableNonState

load_state(content, doc) ==
    IF content = "absent" THEN DefaultState
    ELSE IF content \in Unparseable THEN DefaultState
    ELSE IF content = "state" THEN doc
    ELSE [json |-> content]

(* two calls of load_state in a row; load_state writes the file only when it *)
(* is absent, so the second call reads what the first call read or created  *)
LoadState(content) ==
    LET first == load_state(content, st)
        second == load_state(IF content = "absent" THEN "state" ELSE content,
                             IF content = "absent" THEN DefaultState ELSE st)
    IN  /\ last' = [op |-> "load_state", content |-> content,
                    first |-> first, second |-> second]
        /\ UNCHANGED <<st, trades, ledger, mem, env, clock, accepted>>

(* C13: if the state file holds content that is not a valid state document, *)
(* load_state returns the default state (cash_usd 10000, btc 0,              *)
(* trades_today 0, all markers null) without raising, and repeated calls     *)
(* return the same default state.                                            *)
C13_LoadDefaultsOnCorruption ==
    (last.op = "load_state" /\ last.content \in Unparseable \cup ParseableNonState) =>
        /\ last.first = DefaultState
        /\ last.second = DefaultState

-----------------------------------------------------------------------------
(* Ticks of run_loop over two UTC days, checked under SpecDay.  The clock    *)
(* starts two hours before midnight and advances by the loop's sleep.        *)
MaxSleeps == 6
SecondsPerDay == 24 * 3600
INTERVAL_MINUTES == 30

(* runner.py:517 *)
SleepSec == Max(TICK_SEC, INTERVAL_MINUTES * 60)
DayStartClock == SecondsPerDay - 4 * SleepSec
UtcDay(now) == now \div SecondsPerDay

(* guardrails_daily.py:47-64, daily_cap_gate on the count of today's trades *)
daily_cap_gate(cap, n) == IF cap <= 0 THEN TRUE ELSE ~(n >= cap)

(* the trades the state records for the UTC day of now *)
TradesToday(s, now) ==
    IF s.trades_today_date = UtcDay(now) THEN s.trades_today ELSE 0

DailyCaps == {0, 1}
EnvsDay == [GLOBAL_PAUSE : BOOLEAN, ALLOW_SIDE_SWITCH : {TRUE},
            MAX_DAILY_TRADES : DailyCaps]

(* the state file outlives the process (engine.py:50 writes the defaults     *)
(* only when it is absent): a run starts from the defaults or from what an   *)
(* earlier run left, here a portfolio whose cash is below one DCA lot        *)
LowCash == Usd(40)
PersistedStates == {DefaultState, [DefaultState EXCEPT !.cash_usd = LowCash]}

InitDay ==
    /\ st \in PersistedStates
    /\ trades = <<>>
    /\ ledger = <<>>
    /\ mem = [last_buy_time |-> NoneVal, last_sell_time |-> NoneVal,
              daily_buy_spend |-> 0, daily_buy_day |-> NoneVal]
    /\ env \in EnvsDay
    /\ clock = DayStartClock
    /\ accepted = [buy |-> NoneVal, sell |-> NoneVal]
    /\ last = NoCall

Sleep ==
    /\ clock + SleepSec <= DayStartClock + MaxSleeps * SleepSec
    /\ clock' = clock + SleepSec
    /\ UNCHANGED <<st, trades, ledger, mem, env, accepted, last>>

NextDay ==
    \/ Sleep
    \/ \E price \in Prices, action \in Actions, size_usd \in DecisionSizes :
           RunOnce(price, action, size_usd)

SpecDay == InitDay /\ [][NextDay]_vars

(* C14: once the trades recorded for the current UTC day have reached        *)
(* max_trades_per_day (> 0), no tick executes a further trade on that day;   *)
(* with the cap 0 or absent the gate never blocks.                           *)
C14_DailyTradeCap ==
    /\ daily_cap_gate(0, 1)
    /\ (last.op = "run_once"
          /\ ~daily_cap_gate(env.MAX_DAILY_TRADES,
                             TradesToday(last.pre_st, last.now)))
         => (trades = last.pre_trades /\ ledger = last.pre_ledger)

(* C15: after every accepted trade (DCA or advisor) trades_today is reset to *)
(* 0 if trades_today_date is not the current UTC date and then incremented   *)
(* by exactly one, and last_trade_ts, last_side and last_conf are set to     *)
(* that trade's time, side and confidence (a DCA fill has no confidence).    *)
CountedOnce ==
    /\ st.trades_today = TradesToday(last.pre_st, last.now) + 1
    /\ st.trades_today_date = UtcDay(last.now)
    /\ st.last_trade_ts = last.now
C15_CountersMarked ==
    /\ (last.op = "try_execute_trade" /\ last.ok) =>
           /\ CountedOnce
           /\ st.last_side = last.side
           /\ st.last_conf = last.conf
    /\ (last.op = "run_once" /\ last.dca) =>
           /\ CountedOnce
           /\ st.last_side \in {"buy", "BUY"}
(* the two halves on their own: the advisor path, and the DCA path *)
C15_AdvisorCounted ==
    (last.op = "try_execute_trade" /\ last.ok) => CountedOnce
C15_DcaSideMarked ==
    (last.op = "run_once" /\ last.dca) => st.last_side \in {"buy", "BUY"}

-----------------------------------------------------------------------------
(* Calls of the stateless helpers, from the state after construction *)
NextGates ==
    \/ \E action \in Actions, conf \in GateConfs, regime_label \in Regimes,
          rsi \in Rsis, allow_soft \in BOOLEAN :
           RegimeGate(action, conf, regime_label, rsi, allow_soft)
    \/ \E dec \in RawOutputs, rsi \in ObsRsis : CoerceToSchema(dec, rsi)
    \/ \E content \in FileContents : LoadState(content)

SpecGates == Init /\ [][NextGates]_vars

-----------------------------------------------------------------------------
(* guardrails_regime.py:198-274: the cash floor, the daily buy budget and    *)
(* the per-side cooldown, with the module globals in mem.  Amounts are in    *)
(* whole USD, times in seconds.  Checked under SpecBudget.                   *)
CASH_FLOOR_USD == 3000
COOLDOWN_MINUTES == 5
MaxSpend == 800

(* guardrails_regime.py:209-213 *)
reset_daily_budget_if_needed(m, now) ==
    IF m.daily_buy_day = NoneVal \/ UtcDay(now) # UtcDay(m.daily_buy_day)
    THEN [m EXCEPT !.daily_buy_day = now, !.daily_buy_spend = 0]
    ELSE m

(* guardrails_regime.py:252 and :255 *)
BelowCashFloor(portfolio_cash, size_usd, cash_floor) == portfolio_cash < cash_floor
BudgetExceeded_spendOnly(spend, size_usd, cap) == cap > 0 /\ spend > cap
BudgetExceeded(spend, size_usd, cap) == cap > 0 /\ spend + size_usd > cap

(* guardrails_regime.py:215-265, guardrails_pass: the passed flag and the    *)
(* module globals after the call                                             *)
guardrails_pass(m, action, size_usd, portfolio_cash, now, buy_cap_day) ==
    LET m1 == reset_daily_budget_if_needed(m, now)
        side == Upper(action)
        last_t == IF side = "BUY" THEN m1.last_buy_time ELSE m1.last_sell_time
        cooldown_gate ==
            ~ ( /\ side \in {"BUY", "SELL"}
                /\ last_t # NoneVal
                /\ Max(0, now - last_t) < COOLDOWN_MINUTES * 60 )
        cash_floor_gate ==
            ~ (side = "BUY" /\ BelowCashFloor(portfolio_cash, size_usd, CASH_FLOOR_USD))
        cap_gate ==
            ~ (side = "BUY" /\ BudgetExceeded(m1.daily_buy_spend, size_usd, buy_cap_day))
    IN  [ok |-> cash_floor_gate /\ cap_gate /\ cooldown_gate,
         cash_ok |-> cash_floor_gate, cap_ok |-> cap_gate, mem |-> m1]

(* guardrails_regime.py:267-269 *)
note_trade_side_time(m, side, now) ==
    IF Upper(side) = "BUY" THEN [m EXCEPT !.last_buy_time = now]
    ELSE IF Upper(side) = "SELL" THEN [m EXCEPT !.last_sell_time = now]
    ELSE m
(* guardrails_regime.py:271-274 *)
apply_daily_buy_accum(m, side, notional_usd) ==
    IF Upper(side) = "BUY"
    THEN [m EXCEPT !.daily_buy_spend = @ + notional_usd]
    ELSE m

BuyLimits == {0, 500}
EnvsBudget == [GLOBAL_PAUSE : {FALSE}, ALLOW_SIDE_SWITCH : {TRUE},
               DAILY_BUY_LIMIT_USD : BuyLimits]
GateSizes == {200, 300}
GateCash == {3100, 2900}

InitBudget ==
    /\ st = DefaultState
    /\ trades = <<>>
    /\ ledger = <<>>
    /\ mem = [last_buy_time |-> NoneVal, last_sell_time |-> NoneVal,
              daily_buy_spend |-> 0, daily_buy_day |-> NoneVal]
    /\ env \in EnvsBudget
    /\ clock = SecondsPerDay - SleepSec
    /\ accepted = [buy |-> NoneVal, sell |-> NoneVal]
    /\ last = NoCall

GuardrailsPass(action, size_usd, portfolio_cash) ==
    LET r == guardrails_pass(mem, action, size_usd, portfolio_cash, clock,
                             env.DAILY_BUY_LIMIT_USD)
    IN  /\ mem' = r.mem
        /\ last' = [op |-> "guardrails_pass", side |-> Upper(action),
                    size |-> size_usd, cash |-> portfolio_cash, now |-> clock,
                    ok |-> r.ok, cash_ok |-> r.cash_ok, cap_ok |-> r.cap_ok,
                    pre_mem |-> mem]
        /\ UNCHANGED <<st, trades, ledger, env, clock, accepted>>

NoteTradeSideTime(side) ==
    /\ mem' = note_trade_side_time(mem, side, clock)
    /\ last' = [op |-> "note_trade_side_time", side |-> Upper(side),
                size |-> 0, now |-> clock, pre_mem |-> mem]
    /\ UNCHANGED <<st, trades, ledger, env, clock, accepted>>

ApplyDailyBuyAccum(side, notional_usd) ==
    /\ mem.daily_buy_spend + notional_usd <= MaxSpend
    /\ mem' = apply_daily_buy_accum(mem, side, notional_usd)
    /\ last' = [op |-> "apply_daily_buy_accum", side |-> Upper(side),
                size |-> notional_usd, now |-> clock, pre_mem |-> mem]
    /\ UNCHANGED <<st, trades, ledger, env, clock, accepted>>

NextBudget ==
    \/ Sleep
    \/ \E action \in Actions, size_usd \in GateSizes, cash \in GateCash :
           GuardrailsPass(action, size_usd, cash)
    \/ \E side \in {"buy", "sell"} : NoteTradeSideTime(side)
    \/ \E side \in {"buy", "sell"}, size_usd \in GateSizes :
           ApplyDailyBuyAccum(side, size_usd)

SpecBudget == InitBudget /\ [][NextBudget]_vars

(* C16: guardrails_pass blocks a BUY whenever the cash remaining after the   *)
(* trade (cash - size_usd) would be below CASH_FLOOR_USD.                    *)
C16_CashFloorAfterTrade ==
    (last.op = "guardrails_pass" /\ last.side = "BUY"
        /\ last.cash - last.size < CASH_FLOOR_USD) => ~last.ok

C17_WitnessBlocked ==
    /\ last.op = "guardrails_pass" /\ last.side = "BUY"
    /\ ~last.cap_ok /\ last.cash_ok
    /\ mem.daily_buy_spend > 0 /\ mem.daily_buy_spend <= env.DAILY_BUY_LIMIT_USD

-----------------------------------------------------------------------------
(* Claims about the DCA section of run_once, checked under SpecDay           *)

(* the claim's condition: the price is at or below anchor*(1 - drop/100) or  *)
(* there is no anchor, and the cooldown since last_dca_ts has elapsed or     *)
(* there is none                                                             *)
DcaDue(s, now, price) ==
    /\ (s.last_dca_price = NoneVal
          \/ price * 100 <= s.last_dca_price * (100 - DCA_DROP_PCT))
    /\ (s.last_dca_ts = NoneVal
          \/ now - s.last_dca_ts >= DCA_MIN_COOLDOWN_MIN * 60)
DcaFunded(s) ==
    s.cash_usd >= Usd(DCA_LOT_USD) + Usd(DCA_LOT_USD) \div 1000
DcaRowAndAnchor ==
    /\ Len(trades) = Len(last.pre_trades) + 1
    /\ trades[Len(trades)] = [side |-> "buy", source |-> "DCA"]
    /\ st.last_dca_price = last.price
    /\ st.last_dca_ts = last.now
    /\ st.btc = last.pre_st.btc + QtyOf(UsdToSize(DCA_LOT_USD), last.price)

(* C18 as stated: a fixed-lot BUY tagged DCA executes in a tick exactly when *)
(* the price is at or below anchor*(1 - DCA_DROP_PCT/100) (or there is no    *)
(* anchor) and DCA_MIN_COOLDOWN_MIN minutes have elapsed since last_dca_ts   *)
(* (or there is none); each fill sets the anchor to its price and time.      *)
C18_DcaExactlyWhenDue ==
    (last.op = "run_once") =>
        /\ last.dca <=> DcaDue(last.pre_st, last.now, last.price)
        /\ last.dca => DcaRowAndAnchor

(* C18 as amended: ... executes exactly when the price and cooldown          *)
(* conditions hold and the cash covers the lot plus its fee; each fill sets  *)
(* the anchor to its price and time, and a tick without a fill leaves the    *)
(* anchor and the ledger as they were.                                       *)
C18_DcaWhenDueAndFunded ==
    (last.op = "run_once") =>
        /\ last.dca <=> (DcaDue(last.pre_st, last.now, last.price)
                           /\ DcaFunded(last.pre_st))
        /\ last.dca => DcaRowAndAnchor
        /\ ~last.dca => (st = last.pre_st /\ trades = last.pre_trades)
(* a second fill: an hour after the first, at a price 20% lower, with the    *)
(* global pause switch set                                                   *)
C18_Witness ==
    /\ last.op = "run_once" /\ last.dca /\ env.GLOBAL_PAUSE
    /\ last.pre_st.last_dca_price # NoneVal
    /\ last.price < last.pre_st.last_dca_price
    /\ last.now - last.pre_st.last_dca_ts >= DCA_MIN_COOLDOWN_MIN * 60
(* the price has dropped but the cooldown has not elapsed: no fill *)
C18_WitnessTooSoon ==
    /\ last.op = "run_once" /\ ~last.dca
    /\ last.pre_st.last_dca_price # NoneVal
    /\ last.price * 100 <= last.pre_st.last_dca_price * (100 - DCA_DROP_PCT)
    /\ last.now > last.pre_st.last_dca_ts

-----------------------------------------------------------------------------
(* runner.py:491-517, run_loop, checked under SpecLoop.  last is the frame   *)
(* of the call: where it stands, tick_count, and the ghost counters calls    *)
(* (invocations of run_once) and errors (ticks that raised).                 *)
MaxTicks == 3
LoopLimits == (0 .. MaxTicks) \cup {NoneVal}

(* runner.py:171-321, run_once on state s: what RunOnce does to the state    *)
(* file and how the tick ends                                                *)
run_once_result(s, now, price, action0, size_usd) ==
    LET r == paper_fill(s, "BUY", "DCA", price,
                        QtyOf(UsdToSize(DCA_LOT_USD), price), FEE_BPS_DEFAULT)
        dca == dca_fires(s, now, price) /\ r.ok
        dca_st == IF dca THEN SetDcaAnchor(_mark_trade(r.s, now), now, price)
                  ELSE s
        size == SizeAfterFallback(Upper(action0), size_usd, dca_st, price)
    IN  [dca |-> dca, st |-> dca_st, row |-> r.row,
         info |-> IF HoldOrZero(Upper(action0), size) THEN "hold_noop"
                  ELSE "NameError"]

InitLoop ==
    /\ st = DefaultState
    /\ trades = <<>>
    /\ ledger = <<>>
    /\ mem = [last_buy_time |-> NoneVal, last_sell_time |-> NoneVal,
              daily_buy_spend |-> 0, daily_buy_day |-> NoneVal]
    /\ env \in Envs
    /\ clock = 0
    /\ accepted = [buy |-> NoneVal, sell |-> NoneVal]
    /\ \E n \in LoopLimits :
           last = [op |-> "run_loop", pc |-> "tick", max_ticks |-> n,
                   tick_count |-> 0, calls |-> 0, errors |-> 0, info |-> ""]

(* runner.py:494-515: one pass of the loop body.  run_once raises at once    *)
(* when the feed fails (runner.py:175-179), or at runner.py:321; the loop    *)
(* catches it (runner.py:510), counts the tick and tests max_ticks.          *)
LoopTick(feed_fails, price, action0, size_usd) ==
    LET r == run_once_result(st, clock, price, action0, size_usd)
        fill == ~feed_fails /\ r.dca
        raised == feed_fails \/ r.info = "NameError"
        n == last.tick_count + 1
    IN  /\ last.op = "run_loop" /\ last.pc = "tick"
        /\ last.max_ticks = NoneVal => last.tick_count <= MaxTicks
        /\ fill => Len(trades) < MaxRows
        /\ st' = IF feed_fails THEN st ELSE r.st
        /\ trades' = IF fill THEN Append(trades, r.row) ELSE trades
        /\ ledger' = IF fill THEN Append(ledger, r.row) ELSE ledger
        /\ last' = [last EXCEPT
                      !.calls = @ + 1,
                      !.errors = @ + (IF raised THEN 1 ELSE 0),
                      !.info = IF feed_fails THEN "feed_error" ELSE r.info,
                      !.tick_count = n,
                      !.pc = IF last.max_ticks # NoneVal /\ n >= last.max_ticks
                             THEN "returned" ELSE "sleep"]
        /\ UNCHANGED <<mem, env, clock, accepted>>

(* runner.py:517 *)
LoopSleep ==
    /\ last.op = "run_loop" /\ last.pc = "sleep"
    /\ clock' = clock + SleepSec
    /\ last' = [last EXCEPT !.pc = "tick"]
    /\ UNCHANGED <<st, trades, ledger, mem, env, accepted>>

NextLoop ==
    \/ \E feed_fails \in BOOLEAN, price \in Prices, action \in Actions,
          size_usd \in DecisionSizes :
           LoopTick(feed_fails, price, action, size_usd)
    \/ LoopSleep

SpecLoop == InitLoop /\ [][NextLoop]_vars

(* C19: run_loop with max_ticks = N invokes run_once exactly N times and     *)
(* then returns, also when ticks raise; a tick that raised is not retried.   *)
C19_ExactlyNCalls ==
    (last.op = "run_loop") =>
        /\ last.calls = last.tick_count
        /\ last.pc = "returned" => last.calls = last.max_ticks
(* what holds: exactly N calls for N >= 1, whatever raised; one call for 0   *)
C19_CallsForPositiveN ==
    (last.op = "run_loop") =>
        /\ last.calls = last.tick_count
        /\ last.errors <= last.calls
        /\ last.max_ticks >= 1 => last.calls <= last.max_ticks
        /\ (last.pc = "returned" /\ last.max_ticks >= 1)
               => last.calls = last.max_ticks
        /\ (last.pc = "returned" /\ last.max_ticks = 0) => last.calls = 1
C19_ReturnedAfterErrors ==
    /\ last.op = "run_loop" /\ last.pc = "returned"
    /\ last.max_ticks = MaxTicks /\ last.errors = MaxTicks

-----------------------------------------------------------------------------
(* runner.py:123-138, _execute_and_notify, checked under SpecNotify.         *)
(* alert is what the notification does: "absent" (send_trade_alert is None,  *)
(* runner.py:70-73), "sent", or "raises" (an Exception inside it).           *)
Alerts == {"absent", "sent", "raises"}

(* runner.py:132-136: the call is wrapped in try/except Exception *)
AlertErrorEscapes_uncaught(alert) == alert = "raises"
AlertErrorEscapes(alert) == FALSE

ExecuteAndNotify(side, reason, price, qty, alert) ==
    LET r == paper_fill(st, side, reason, price, qty, FEE_BPS_DEFAULT)
        escapes == r.ok /\ alert # "absent" /\ AlertErrorEscapes(alert)
    IN  /\ Len(trades) < MaxFills
        /\ st' = IF r.ok THEN _mark_trade(r.s, clock) ELSE st
        /\ trades' = RowsAfter(r, trades)
        /\ ledger' = RowsAfter(r, ledger)
        /\ last' = [op |-> "_execute_and_notify", side |-> Lower(side),
                    price |-> price, qty |-> qty, alert |-> alert,
                    now |-> clock, filled |-> r.ok,
                    ret |-> IF ~r.ok THEN "None"
                            ELSE IF escapes THEN "raised" ELSE "fill",
                    pre_st |-> st, pre_trades |-> trades,
                    pre_ledger |-> ledger, fill_st |-> SavedAfter(r, st)]
        /\ UNCHANGED <<mem, env, clock, accepted>>

NextNotify ==
    \/ Sleep
    \/ \E side \in {"buy", "sell"}, price \in Prices, alert \in Alerts :
           ExecuteAndNotify(side, "DCA", price,
                            QtyOf(UsdToSize(DCA_LOT_USD), price), alert)

SpecNotify == InitDay /\ [][NextNotify]_vars

(* C20: if send_trade_alert raises after an accepted paper_fill,             *)
(* _execute_and_notify still returns the fill, the balance change and the    *)
(* ledger rows stay persisted, and the trade counters are marked.            *)
C20_AlertFailureKeepsTrade ==
    (last.op = "_execute_and_notify" /\ last.filled /\ last.alert = "raises") =>
        /\ last.ret = "fill"
        /\ st.cash_usd = last.fill_st.cash_usd /\ st.btc = last.fill_st.btc
        /\ st.cash_usd # last.pre_st.cash_usd /\ st.btc # last.pre_st.btc
        /\ trades = Append(last.pre_trades, [side |-> last.side, source |-> "DCA"])
        /\ ledger = Append(last.pre_ledger, [side |-> last.side, source |-> "DCA"])
        /\ CountedOnce
(* a SELL that filled on the day after the previous trade, alert failing *)
C20_Witness ==
    /\ last.op = "_execute_and_notify" /\ last.filled /\ last.alert = "raises"
    /\ last.side = "sell"
    /\ last.pre_st.trades_today_date # UtcDay(last.now)
    /\ last.pre_st.trades_today > 0 /\ st.trades_today = 1

-----------------------------------------------------------------------------
(* Two processes that each run ticks against the same state directory,      *)
(* checked under SpecConc.  A tick is paper_fill (engine.py:142-212)        *)
(* followed by _mark_trade (runner.py:140-151), as in runner.py:123-131 and *)
(* runner.py:206-215.  Each function reads portfolio_state.json with        *)
(* load_state (engine.py:66-80) into a local dict and writes the dict back  *)
(* with save_state (engine.py:83-85); no lock is taken in between.  The     *)
(* frame keeps, per process, its position, its local dict and its row, and  *)
(* the sum of the balance changes of the fills that returned ok.            *)
Procs == {1, 2}
MaxRounds == 2

InitConc ==
    /\ st = DefaultState
    /\ trades = <<>>
    /\ ledger = <<>>
    /\ mem = [last_buy_time |-> NoneVal, last_sell_time |-> NoneVal,
              daily_buy_spend |-> 0, daily_buy_day |-> NoneVal]
    /\ env \in Envs
    /\ clock = 0
    /\ accepted = [buy |-> NoneVal, sell |-> NoneVal]
    /\ last = [op |-> "concurrent",
               pc |-> [p \in Procs |-> "idle"],
               loc |-> [p \in Procs |-> DefaultState],
               row |-> [p \in Procs |-> [side |-> "", source |-> ""]],
               rounds |-> [p \in Procs |-> 0],
               dcash |-> [p \in Procs |-> 0],
               dbtc |-> [p \in Procs |-> 0],
               rejected |-> 0, fills |-> 0, cash_delta |-> 0, btc_delta |-> 0]

(* engine.py:151-172: load_state, the risk guard, the update of the dict *)
FillLoad(p, side, price, qty) ==
    LET r == paper_fill(st, side, "DCA", price, qty, FEE_BPS_DEFAULT)
    IN  /\ last.pc[p] = "idle"
        /\ last.rounds[p] < MaxRounds
        /\ last' = [last EXCEPT
                      !.pc[p] = IF r.ok THEN "fill_loaded" ELSE "idle",
                      !.rounds[p] = @ + 1,
                      !.rejected = IF r.ok THEN @ ELSE @ + 1,
                      !.loc[p] = r.s,
                      !.dcash[p] = r.s.cash_usd - st.cash_usd,
                      !.dbtc[p] = r.s.btc - st.btc,
                      !.row[p] = r.row]
        /\ UNCHANGED <<st, trades, ledger, mem, env, clock, accepted>>

(* engine.py:178-199: the two rows, appended to files opened in mode "a" *)
FillAppend(p) ==
    /\ last.pc[p] = "fill_loaded"
    /\ trades' = Append(trades, last.row[p])
    /\ ledger' = Append(ledger, last.row[p])
    /\ last' = [last EXCEPT !.pc[p] = "fill_appended"]
    /\ UNCHANGED <<st, mem, env, clock, accepted>>

(* engine.py:201-212: save_state(s) of the local dict, return True *)
FillSave(p) ==
    /\ last.pc[p] = "fill_appended"
    /\ st' = last.loc[p]
    /\ last' = [last EXCEPT
                  !.pc[p] = "filled",
                  !.fills = @ + 1,
                  !.cash_delta = @ + last.dcash[p],
                  !.btc_delta = @ + last.dbtc[p]]
    /\ UNCHANGED <<trades, ledger, mem, env, clock, accepted>>

(* runner.py:142: _mark_trade's load_state *)
MarkLoad(p) ==
    /\ last.pc[p] = "filled"
    /\ last' = [last EXCEPT !.pc[p] = "mark_loaded", !.loc[p] = st]
    /\ UNCHANGED <<st, trades, ledger, mem, env, clock, accepted>>

(* runner.py:143-151: the counters set on the local dict, save_state *)
MarkSave(p) ==
    /\ last.pc[p] = "mark_loaded"
    /\ st' = _mark_trade(last.loc[p], clock)
    /\ last' = [last EXCEPT !.pc[p] = "idle"]
    /\ UNCHANGED <<trades, ledger, mem, env, clock, accepted>>

NextConc ==
    \E p \in Procs :
        \/ \E side \in {"buy", "sell"}, price \in Prices :
               FillLoad(p, side, price, QtyOf(UsdToSize(DCA_LOT_USD), price))
        \/ FillAppend(p)
        \/ FillSave(p)
        \/ MarkLoad(p)
        \/ MarkSave(p)

SpecConc == InitConc /\ [][NextConc]_vars

Quiescent == \A p \in Procs : last.pc[p] = "idle"

(* C21: when two processes interleave their ticks, the persisted cash_usd,  *)
(* btc and trades_today equal the result of applying every accepted trade   *)
(* once in some serial order, and the ledger has one row per applied trade. *)
(* Every trade happens on one day, and the balance changes add up to the    *)
(* same sums in every serial order.                                         *)
C21_NoLostUpdate ==
    (last.op = "concurrent" /\ Quiescent) =>
        /\ st.cash_usd = DefaultState.cash_usd + last.cash_delta
        /\ st.btc = DefaultState.btc + last.btc_delta
        /\ st.trades_today = last.fills
        /\ Len(ledger) = last.fills
        /\ Len(trades) = last.fills
(* the rows alone are never lost: each accepted fill appends its own *)
C21_OneRowPerFill ==
    (last.op = "concurrent" /\ Quiescent) =>
        Len(ledger) = last.fills /\ Len(trades) = last.fills
(* one process at a time: the serial outcome *)
C21_SerialOutcome ==
    /\ last.op = "concurrent" /\ Quiescent /\ last.fills = 2
    /\ st.cash_usd = DefaultState.cash_usd + last.cash_delta
    /\ st.trades_today = 2

-----------------------------------------------------------------------------
(* guardrails_regime.py:15-193, the regime detector, checked under          *)
(* SpecRegime.  The input is the frame of 1-minute candles, given by the    *)
(* shape of its price path and the number of hours it covers; Bar is the    *)
(* hourly bar that resample("1h").agg(high=max, low=min, close=last)        *)
(* (guardrails_regime.py:141-146) makes of it.  Prices are whole USD.       *)
(* Floating-point values are kept as fixed-point integers: EMAs in          *)
(* hundredths of a USD, Wilder sums in tenths, DI/DX/ADX in hundredths of a *)
(* percent, the slope in tenths of a basis point per hour.                  *)
BasePrice == 10000
StepPerMin == 1
SwingUsd == 40
FrameKinds == {"rising", "falling", "flat", "oscillating_1m", "oscillating_1h",
               "uptrend_pullbacks", "downtrend_bounces", "all_nan"}
FrameHours == {0, 1, 10, 15, 16, 28, 37, 48, 49, 50, 56}

Abs(x) == IF x < 0 THEN 0 - x ELSE x
Max3(a, b, c) == Max(a, Max(b, c))

(* the level after hour i of a path that moves two swings with the trend in *)
(* two hours out of three and one swing against it in the third             *)
Staircase(i) == SwingUsd * (2 * i - 3 * (i \div 3))

Bar(kind, i) ==
    CASE kind = "rising" ->
            [high  |-> BasePrice + 60 * StepPerMin * i,
             low   |-> BasePrice + 60 * StepPerMin * (i - 1) + StepPerMin,
             close |-> BasePrice + 60 * StepPerMin * i]
      [] kind = "falling" ->
            [high  |-> 2 * BasePrice - 60 * StepPerMin * (i - 1) - StepPerMin,
             low   |-> 2 * BasePrice - 60 * StepPerMin * i,
             close |-> 2 * BasePrice - 60 * StepPerMin * i]
      [] kind = "oscillating_1m" ->
            [high |-> BasePrice + StepPerMin, low |-> BasePrice,
             close |-> BasePrice]
      [] kind = "oscillating_1h" ->
            LET c == BasePrice + SwingUsd * (i % 2)
            IN  [high |-> c, low |-> c, close |-> c]
      [] kind = "uptrend_pullbacks" ->
            LET c == BasePrice + Staircase(i)
            IN  [high |-> c, low |-> c, close |-> c]
      [] kind = "downtrend_bounces" ->
            LET c == 2 * BasePrice - Staircase(i)
            IN  [high |-> c, low |-> c, close |-> c]
      [] OTHER ->
            [high |-> BasePrice, low |-> BasePrice, close |-> BasePrice]

(* guardrails_regime.py:141-146: rows without a price give no hourly bar *)
HourlyBars(frame) ==
    IF frame.kind = "all_nan" THEN <<>>
    ELSE [i \in 1 .. frame.hours |-> Bar(frame.kind, i)]

(* pandas ewm(span, adjust=False).mean() (guardrails_regime.py:15-16) and   *)
(* _ema_array (guardrails_regime.py:18-24): y[1] = x[1],                    *)
(* y[i] = alpha*x[i] + (1-alpha)*y[i-1] with alpha = 2/(span+1)             *)
RECURSIVE EmaAt(_, _, _)
EmaAt(x, span, i) ==
    IF i = 1 THEN x[1]
    ELSE (2 * x[i] + (span - 1) * EmaAt(x, span, i - 1)) \div (span + 1)

(* the close column in hundredths of a USD *)
CloseX100(bars) == [i \in 1 .. Len(bars) |-> 100 * bars[i].close]

(* guardrails_regime.py:93-109, _ema200_slope_bps_per_hour(c, 30, 200), in  *)
(* tenths of a basis point per hour: 10000 * 10 * (y2-y1)/y1 / hours with   *)
(* hours = (w-1) * 0.5                                                      *)
EMA_SLOPE_SPAN == 200
_ema200_slope_bps_per_hour(bars) ==
    LET n == Len(bars)
        c == CloseX100(bars)
        w == Min(5, n - 1)
        y1 == EmaAt(c, EMA_SLOPE_SPAN, n - w + 1)
        y2 == EmaAt(c, EMA_SLOPE_SPAN, n)
    IN  IF n < Max(5, EMA_SLOPE_SPAN \div 4) THEN 0
        ELSE IF n < 3 THEN 0
        ELSE IF y1 <= 0 THEN 0
        ELSE IF w - 1 <= 0 THEN 0
        ELSE ((y2 - y1) * 2000) \div ((y1 * (w - 1)) \div 100)

(* guardrails_regime.py:55-66: directional moves and true range of bar i,   *)
(* i >= 2 (the callers drop the first element), in tenths of a USD          *)
PlusDm(bars, i) ==
    LET up_move == bars[i].high - bars[i - 1].high
        down_move == bars[i - 1].low - bars[i].low
    IN  IF up_move > down_move /\ up_move > 0 THEN 10 * up_move ELSE 0
MinusDm(bars, i) ==
    LET up_move == bars[i].high - bars[i - 1].high
        down_move == bars[i - 1].low - bars[i].low
    IN  IF down_move > up_move /\ down_move > 0 THEN 10 * down_move ELSE 0
TrueRange(bars, i) ==
    10 * Max3(bars[i].high - bars[i].low,
              Abs(bars[i].high - bars[i - 1].close),
              Abs(bars[i].low - bars[i - 1].close))

ADX_N == 14

RECURSIVE SumTo(_, _)
SumTo(x, k) == IF k = 0 THEN 0 ELSE x[k] + SumTo(x, k - 1)

(* guardrails_regime.py:70-78, _wilder: zeros before the window, the sum of *)
(* the first n values, then out[i] = out[i-1] - out[i-1]/n + x[i]; the      *)
(* result keeps only the non-zero entries                                   *)
RECURSIVE WilderAt(_, _)
WilderAt(x, i) ==
    IF i < ADX_N THEN 0
    ELSE IF i = ADX_N THEN SumTo(x, ADX_N)
    ELSE LET prev == WilderAt(x, i - 1) IN prev - (prev \div ADX_N) + x[i]
_wilder(x) ==
    IF Len(x) < ADX_N THEN <<>>
    ELSE SelectSeq([i \in 1 .. Len(x) |-> WilderAt(x, i)], LAMBDA v : v # 0)

(* numpy broadcasting of two 1-d arrays: equal lengths, or one of length 1 *)
Broadcastable(a, b) == Len(a) = Len(b) \/ Len(a) = 1 \/ Len(b) = 1
BroadcastLen(a, b) == IF Len(a) = 1 THEN Len(b) ELSE Len(a)
At(a, j) == IF Len(a) = 1 THEN a[1] ELSE a[j]

(* guardrails_regime.py:46-91, _adx14_hourly: [result |-> "None"],          *)
(* [result |-> "raise"] (ValueError of a numpy operation on arrays that do  *)
(* not broadcast) or [result |-> "ok"] with the ADX in hundredths           *)
_adx14_hourly(bars) ==
    LET n == Len(bars)
        tr == [k \in 1 .. n - 1 |-> TrueRange(bars, k + 1)]
        pdm == [k \in 1 .. n - 1 |-> PlusDm(bars, k + 1)]
        mdm == [k \in 1 .. n - 1 |-> MinusDm(bars, k + 1)]
        tr_s == _wilder(tr)
        pdm_s == _wilder(pdm)
        mdm_s == _wilder(mdm)
        pdi == [j \in 1 .. BroadcastLen(pdm_s, tr_s) |->
                    (10000 * At(pdm_s, j)) \div At(tr_s, j)]
        mdi == [j \in 1 .. BroadcastLen(mdm_s, tr_s) |->
                    (10000 * At(mdm_s, j)) \div At(tr_s, j)]
        dx == [j \in 1 .. BroadcastLen(pdi, mdi) |->
                    IF At(pdi, j) + At(mdi, j) = 0 THEN 0
                    ELSE (10000 * Abs(At(pdi, j) - At(mdi, j)))
                             \div (At(pdi, j) + At(mdi, j))]
    IN  IF n < 16 THEN [result |-> "None", adx |-> 0]
        ELSE IF Len(tr_s) = 0 THEN [result |-> "None", adx |-> 0]
        ELSE IF ~Broadcastable(pdm_s, tr_s) \/ ~Broadcastable(mdm_s, tr_s)
             THEN [result |-> "raise", adx |-> 0]
        ELSE IF ~Broadcastable(pdi, mdi) THEN [result |-> "raise", adx |-> 0]
        ELSE IF Len(dx) < ADX_N THEN [result |-> "None", adx |-> 0]
        ELSE [result |-> "ok", adx |-> EmaAt(dx, ADX_N, Len(dx))]

(* guardrails_regime.py:111-118, _read_thresholds: the defaults, the slope  *)
(* in tenths of a basis point per hour and the ADX in hundredths            *)
EMA_SLOPE_BPS_PER_HR_MIN == 2
ADX_TREND_MIN == 18
REGIME_MIN_HOURS == 36
EMA_FAST_SPAN == 50

(* guardrails_regime.py:120-193, detect_regime_from_1m: the label and the   *)
(* diagnostics it returns, or result "raise" when _adx14_hourly raised      *)
detect_regime_from_1m(frame, min_hours) ==
    LET bars == HourlyBars(frame)
        hist_hours == Len(bars)
        short_hist == hist_hours < min_hours
        c == CloseX100(bars)
        ema50 == EmaAt(c, EMA_FAST_SPAN, hist_hours)
        ema200 == EmaAt(c, EMA_SLOPE_SPAN, hist_hours)
        slope == _ema200_slope_bps_per_hour(bars)
        a == _adx14_hourly(bars)
        has_slope == Abs(slope) >= 10 * EMA_SLOPE_BPS_PER_HR_MIN
        has_adx == a.result = "ok" /\ a.adx >= 100 * ADX_TREND_MIN
        trending == has_slope /\ has_adx /\ ~short_hist
        label == IF trending /\ slope > 0 /\ ema50 > ema200 THEN "bull"
                 ELSE IF trending /\ slope < 0 /\ ema50 < ema200 THEN "bear"
                 ELSE "chop"
        none == [result |-> "ok", label |-> "chop", why |-> "", trending |-> FALSE,
                 slope |-> 0, adx |-> NoneVal, ema50 |-> 0, ema200 |-> 0,
                 history_hours |-> 0]
    IN  IF frame.hours = 0 THEN [none EXCEPT !.why = "no_data"]
        ELSE IF hist_hours = 0 THEN [none EXCEPT !.why = "no_hourly_data"]
        ELSE IF a.result = "raise"
             THEN [none EXCEPT !.result = "raise", !.label = "",
                               !.history_hours = hist_hours]
        ELSE [result |-> "ok", label |-> label, why |-> "",
              trending |-> trending, slope |-> slope,
              adx |-> IF a.result = "ok" THEN a.adx ELSE NoneVal,
              ema50 |-> ema50, ema200 |-> ema200,
              history_hours |-> hist_hours]

RegimeMinHours == {REGIME_MIN_HOURS, 12}
Frames == [kind : FrameKinds, hours : FrameHours]

(* one call per behaviour: the function keeps no state between calls *)
DetectRegime(frame, min_hours) ==
    /\ last.op = "init"
    /\ last' = [op |-> "detect_regime_from_1m", frame |-> frame,
                min_hours |-> min_hours,
                out |-> detect_regime_from_1m(frame, min_hours)]
    /\ UNCHANGED <<st, trades, ledger, mem, env, clock, accepted>>

NextRegime ==
    \E frame \in Frames, min_hours \in RegimeMinHours :
        DetectRegime(frame, min_hours)

SpecRegime == Init /\ [][NextRegime]_vars

Detected == last.op = "detect_regime_from_1m"

(* C22: for a strictly monotonically rising price series covering more      *)
(* than REGIME_MIN_HOURS hourly bars detect_regime_from_1m returns label    *)
(* bull; for a flat or oscillating series it returns chop.                  *)
C22_RegimeLabelStability ==
    Detected =>
        /\ (last.frame.kind = "rising" /\ last.frame.hours > last.min_hours) =>
               (last.out.result = "ok" /\ last.out.label = "bull")
        /\ last.frame.kind \in {"flat", "oscillating_1m", "oscillating_1h"} =>
               (last.out.result = "ok" /\ last.out.label = "chop")
(* the parts that hold: a flat series, and one that swings from hour to     *)
(* hour, are labelled chop                                                  *)
C22_FlatAndHourlySwingsAreChop ==
    (Detected /\ last.frame.kind \in {"flat", "oscillating_1h"}) =>
        (last.out.result = "ok" /\ last.out.label = "chop")
(* a strictly rising series never gets a label once ADX has its 16 bars *)
C22_RisingRaises ==
    (Detected /\ last.frame.kind = "rising" /\ last.frame.hours >= 16) =>
        last.out.result = "raise"

(* trending, recomputed from the diagnostics the function returns *)
TrendingOf(out, min_hours) ==
    /\ Abs(out.slope) >= 10 * EMA_SLOPE_BPS_PER_HR_MIN
    /\ out.adx # NoneVal /\ out.adx >= 100 * ADX_TREND_MIN
    /\ out.history_hours >= min_hours
LabelTable(out, min_hours) ==
    /\ out.label \in {"bull", "bear", "chop"}
    /\ out.label = "bull" <=>
           (TrendingOf(out, min_hours) /\ out.slope > 0 /\ out.ema50 > out.ema200)
    /\ out.label = "bear" <=>
           (TrendingOf(out, min_hours) /\ out.slope < 0 /\ out.ema50 < out.ema200)

(* C27: detect_regime_from_1m returns bull only when trending and slope > 0 *)
(* and EMA50 > EMA200, bear only when trending and slope < 0 and            *)
(* EMA50 < EMA200, and chop in every other case; empty input, zero hourly   *)
(* bars and too few hourly bars for ADX yield chop, and the label is always *)
(* one of bull, bear, chop.                                                 *)
C27_LabelTable ==
    Detected =>
        /\ last.out.result = "ok"
        /\ LabelTable(last.out, last.min_hours)
        /\ (last.frame.hours < 16 \/ last.frame.kind = "all_nan") =>
               last.out.label = "chop"
(* the table holds for every call that returns *)
C27_LabelTableWhenReturned ==
    (Detected /\ last.out.result = "ok") =>
        /\ LabelTable(last.out, last.min_hours)
        /\ (last.frame.hours < 16 \/ last.frame.kind = "all_nan") =>
               last.out.label = "chop"
C27_BullReached == Detected /\ last.out.label = "bull"
C27_BearReached == Detected /\ last.out.label = "bear"

-----------------------------------------------------------------------------
(* runner.py:366-430, the execution step of run_once (step 5), checked      *)
(* under SpecExec.  It is the code that follows the guards of               *)
(* runner.py:320-365; the step is modelled from the point where no guard    *)
(* blocked.  The decision's size_usd and the globals in mem are in whole    *)
(* USD, as in SpecBudget.                                                   *)

(* engine.py:322-401, try_execute_trade as main._executor_shim              *)
(* (main.py:52-120) calls it: the pair it returns, the state it saves and   *)
(* the row it appends                                                       *)
try_execute_trade(s, now, side0, conf, price, atr, spread) ==
    LET side == Lower(side0)
        size == build_order_size(conf)
        gate == allow_trade(GateContext(s, now, price, atr, spread), side, conf)
        r == paper_fill(s, side, "LLM", price, QtyOf(size, price), FEE_BPS_DEFAULT)
        info == IF side \notin {"buy", "sell"} THEN "invalid side"
                ELSE IF size < UsdToSize(MIN_NOTIONAL_USD) THEN "min_notional"
                ELSE IF gate # "ok" THEN gate
                ELSE r.info
    IN  [ok |-> info = "fill", info |-> info, row |-> r.row,
         st |-> IF info = "fill" THEN SaveLast(s, now, side, conf) ELSE s]

ExchangeOutcomes == {"paper_or_missing_keys", "placed", "raises"}
ExecConfs == {40, 90}

(* runner.py:369-385: a SELL with nothing held returns before execution *)
SellWithoutHoldings(act, size_usd, s) == act = "SELL" /\ size_usd > 0 /\ s.btc <= 0

(* runner.py:420-422: on the direct path the bookkeeping follows every      *)
(* place_market_usd call that returns, whatever its ok and skipped fields   *)
DirectBookkeeping(outcome) == outcome # "raises"

RunOnceExecute(wiring, action0, size_usd, conf, outcome) ==
    LET act == Upper(action0)
        x == try_execute_trade(st, clock, action0, conf, TradePrice,
                               NoneVal, NoneVal)
        booked == apply_daily_buy_accum(note_trade_side_time(mem, act, clock),
                                        act, size_usd)
        res == IF SellWithoutHoldings(act, size_usd, st) THEN "sell_no_holdings"
               ELSE IF wiring = "executor"
                    THEN (IF x.ok THEN "executor_ok" ELSE "executor_reject")
               ELSE IF act = "BUY" /\ size_usd > 0 THEN outcome
               ELSE "not_sent"
        books == \/ res = "executor_ok"
                 \/ /\ res \in ExchangeOutcomes
                    /\ DirectBookkeeping(res)
    IN  /\ mem.daily_buy_spend + size_usd <= MaxSpend
        /\ res = "executor_ok" => Len(trades) < MaxFills
        /\ mem' = IF books THEN booked ELSE mem
        /\ st' = IF res = "executor_ok" THEN x.st ELSE st
        /\ trades' = IF res = "executor_ok" THEN Append(trades, x.row) ELSE trades
        /\ ledger' = IF res = "executor_ok" THEN Append(ledger, x.row) ELSE ledger
        /\ last' = [op |-> "run_once_execute", wiring |-> wiring, side |-> act,
                    size |-> size_usd, conf |-> conf, res |-> res,
                    info |-> IF wiring = "executor" THEN x.info ELSE "",
                    executed |-> books, now |-> clock,
                    pre_mem |-> mem, pre_st |-> st,
                    pre_trades |-> trades, pre_ledger |-> ledger]
        /\ UNCHANGED <<env, clock, accepted>>

NextExec ==
    \/ Sleep
    \/ \E action \in {"buy", "sell"}, size_usd \in GateSizes, conf \in ExecConfs :
           RunOnceExecute("executor", action, size_usd, conf, "placed")
    \/ \E action \in {"buy", "sell"}, size_usd \in GateSizes,
          outcome \in ExchangeOutcomes :
           RunOnceExecute("direct", action, size_usd, 90, outcome)

SpecExec == InitBudget /\ [][NextExec]_vars

(* a trade was actually executed: the executor filled, or the exchange      *)
(* placed the order                                                         *)
TradeExecuted == last.res \in {"executor_ok", "placed"}
StepWasNoop ==
    /\ st = last.pre_st /\ trades = last.pre_trades /\ ledger = last.pre_ledger
    /\ mem = last.pre_mem

(* C23: when execution is rejected or skipped in a tick (the executor       *)
(* returns not-ok, or the exchange call reports a skipped/not-ok order),    *)
(* balances, ledger, per-side cooldown timestamps and the daily buy         *)
(* accumulator are unchanged.                                               *)
C23_RejectedStepIsNoop ==
    (last.op = "run_once_execute" /\ ~TradeExecuted) => StepWasNoop
(* the executor path alone keeps the claim *)
C23_ExecutorRejectIsNoop ==
    (last.op = "run_once_execute" /\ last.res = "executor_reject") => StepWasNoop
C23_ExecutorRejectReached ==
    /\ last.op = "run_once_execute" /\ last.res = "executor_reject"
    /\ last.info = "cooldown"

-----------------------------------------------------------------------------
(* One-shot invocation against the in-process loop, checked under           *)
(* SpecRestart.  The per-side cooldown times and the daily buy accumulator  *)
(* of guardrails_pass are module globals (guardrails_regime.py:203-207);    *)
(* a new process starts with their initial values.  mem holds the globals   *)
(* of the running process, last.cont those of a process that made the same  *)
(* calls and was never restarted.                                           *)
FreshGlobals ==
    [last_buy_time |-> NoneVal, last_sell_time |-> NoneVal,
     daily_buy_spend |-> 0, daily_buy_day |-> NoneVal]

InitRestart ==
    /\ st = DefaultState
    /\ trades = <<>>
    /\ ledger = <<>>
    /\ mem = FreshGlobals
    /\ env \in EnvsBudget
    /\ clock = SecondsPerDay - SleepSec
    /\ accepted = [buy |-> NoneVal, sell |-> NoneVal]
    /\ last = [op |-> "start", cont |-> FreshGlobals, restarts |-> 0,
               side |-> "", size |-> 0, cash |-> 0, now |-> 0,
               ok |-> TRUE, ok_cont |-> TRUE]

(* the process exits and an external scheduler starts a new one *)
MaxRestarts == 1
Restart ==
    /\ last.restarts < MaxRestarts
    /\ mem' = FreshGlobals
    /\ last' = [last EXCEPT !.op = "restart", !.restarts = @ + 1]
    /\ UNCHANGED <<st, trades, ledger, env, clock, accepted>>

(* runner.py:327, the guardrails_pass guard of a tick *)
GuardOfTick(action, size_usd, portfolio_cash) ==
    LET r == guardrails_pass(mem, action, size_usd, portfolio_cash, clock,
                             env.DAILY_BUY_LIMIT_USD)
        c == guardrails_pass(last.cont, action, size_usd, portfolio_cash, clock,
                             env.DAILY_BUY_LIMIT_USD)
    IN  /\ mem' = r.mem
        /\ last' = [last EXCEPT !.op = "guardrails_pass", !.cont = c.mem,
                      !.side = Upper(action), !.size = size_usd,
                      !.cash = portfolio_cash, !.now = clock,
                      !.ok = r.ok, !.ok_cont = c.ok]
        /\ UNCHANGED <<st, trades, ledger, env, clock, accepted>>

(* runner.py:395-396, the bookkeeping after an executed trade *)
BookkeepingOfTick(side, size_usd) ==
    /\ mem.daily_buy_spend + size_usd <= MaxSpend
    /\ last.cont.daily_buy_spend + size_usd <= MaxSpend
    /\ mem' = apply_daily_buy_accum(note_trade_side_time(mem, side, clock),
                                    side, size_usd)
    /\ last' = [last EXCEPT !.op = "bookkeeping",
                  !.cont = apply_daily_buy_accum(
                               note_trade_side_time(last.cont, side, clock),
                               side, size_usd),
                  !.side = Upper(side), !.size = size_usd, !.now = clock]
    /\ UNCHANGED <<st, trades, ledger, env, clock, accepted>>

(* runner.py:517, with a short interval so that a cooldown spans two ticks *)
ShortSleepSec == 60
MaxShortSleeps == 2
ShortSleep ==
    /\ clock + ShortSleepSec <= SecondsPerDay - SleepSec + MaxShortSleeps * ShortSleepSec
    /\ clock' = clock + ShortSleepSec
    /\ UNCHANGED <<st, trades, ledger, mem, env, accepted, last>>

NextRestart ==
    \/ ShortSleep
    \/ Restart
    \/ \E action \in {"buy", "sell"}, size_usd \in GateSizes :
           GuardOfTick(action, size_usd, CHOOSE c \in GateCash : c >= CASH_FLOOR_USD)
    \/ \E side \in {"buy", "sell"}, size_usd \in GateSizes :
           BookkeepingOfTick(side, size_usd)

SpecRestart == InitRestart /\ [][NextRestart]_vars

(* C24: for the same persisted state, decision, clock and configuration,    *)
(* guardrails_pass (per-side cooldown, cash floor, daily buy budget) gives  *)
(* the same verdict whether the process ran continuously or was restarted   *)
(* between ticks.                                                           *)
C24_SameVerdictAfterRestart ==
    last.op = "guardrails_pass" => last.ok = last.ok_cont
(* without a restart the two runs are the same run *)
C24_SameVerdictWithoutRestart ==
    (last.op = "guardrails_pass" /\ last.restarts = 0) => last.ok = last.ok_cont
C24_BlockedWithoutRestart ==
    last.op = "guardrails_pass" /\ last.restarts = 0 /\ ~last.ok

-----------------------------------------------------------------------------
(* engine.py:255-259, _adaptive_cooldown_sec over the ATR values, checked   *)
(* under SpecCooldown.  ATR is in whole USD; None is NoneVal.               *)
MaxAtr == 130
AtrValues == (0 .. MaxAtr) \cup {NoneVal}

AdaptiveCooldown(atr) ==
    /\ last' = [op |-> "_adaptive_cooldown_sec", atr |-> atr,
                cd |-> _adaptive_cooldown_sec(atr),
                cd_next |-> _adaptive_cooldown_sec(atr + 1)]
    /\ UNCHANGED <<st, trades, ledger, mem, env, clock, accepted>>

NextCooldown == \E atr \in AtrValues : AdaptiveCooldown(atr)

SpecCooldown == Init /\ [][NextCooldown]_vars

(* C25: for every ATR value atr >= 0 the adaptive cooldown equals           *)
(* clamp(atr/2, 5, 60) seconds: it is never below 5 or above 60, it is      *)
(* non-decreasing in ATR, and it is 5 for every atr <= 10.  The equality is *)
(* stated on twice the values, which are whole.                             *)
C25_CooldownIsClamp ==
    (last.op = "_adaptive_cooldown_sec" /\ last.atr >= 0) =>
        /\ 2 * last.cd = Max(2 * COOLDOWN_MIN_SEC, Min(2 * COOLDOWN_MAX_SEC, last.atr))
        /\ last.cd >= COOLDOWN_MIN_SEC /\ last.cd <= COOLDOWN_MAX_SEC
        /\ last.cd <= last.cd_next
        /\ last.atr <= 10 => last.cd = COOLDOWN_MIN_SEC
(* the range holds for every input, None included *)
C25_CooldownInRange ==
    last.op = "_adaptive_cooldown_sec" =>
        (last.cd >= COOLDOWN_MIN_SEC /\ last.cd <= COOLDOWN_MAX_SEC)
(* from 1 USD on the value is the clamp of atr/2, cut to whole seconds *)
C25_ClampCutForPositiveAtr ==
    (last.op = "_adaptive_cooldown_sec" /\ last.atr >= 1) =>
        /\ last.cd = Max(2 * COOLDOWN_MIN_SEC, Min(2 * COOLDOWN_MAX_SEC, last.atr)) \div 2
        /\ last.cd <= last.cd_next

-----------------------------------------------------------------------------
(* engine.py:299-318, build_order's size_usd for any MAX_TRADE_USD, checked  *)
(* under SpecOrder.  max_trade is in whole USD and the size in 1/275 USD,   *)
(* so that k * max_trade is whole both for the k of the code,               *)
(* max(0.2, min(1.0, (conf - 0.45) / 0.55)) = Kx55(conf) / 55, and for the  *)
(* linear map of [0.45, 1.00] onto [0.2, 1.0].                              *)
MaxConf == 120
OrderConfs == 0 .. MaxConf
MaxTrades == {5, 10, 20, 50, 100}

build_order(conf, max_trade) ==
    Max(275 * SIZE_FLOOR_USD, Min(275 * max_trade, 5 * Kx55(conf) * max_trade))

BuildOrder(conf, max_trade) ==
    /\ last' = [op |-> "build_order", conf |-> conf, max_trade |-> max_trade,
                size |-> build_order(conf, max_trade),
                size_next |-> build_order(conf + 1, max_trade)]
    /\ UNCHANGED <<st, trades, ledger, mem, env, clock, accepted>>

NextOrder ==
    \E conf \in OrderConfs, max_trade \in MaxTrades : BuildOrder(conf, max_trade)

SpecOrder == Init /\ [][NextOrder]_vars

(* 275 * k for the k that maps [0.45, 1.00] linearly onto [0.2, 1.0] and is *)
(* clamped outside that domain: 275 * (0.2 + 0.8 * (conf - 0.45) / 0.55)    *)
LinearKx275(conf) ==
    IF conf <= MIN_CONF THEN 55
    ELSE IF conf >= 100 THEN 275
    ELSE 55 + 4 * (conf - MIN_CONF)
Clamp(x, floor, ceiling) == Max(floor, Min(ceiling, x))

(* C26: for every confidence and every configured max trade size,           *)
(* build_order returns size_usd = clamp(k*max_trade, 10, max_trade), where  *)
(* k is the confidence mapped linearly from [0.45, 1.00] onto [0.2, 1.0]    *)
(* and clamped outside that domain; hence 10 <= size_usd <= max_trade and   *)
(* size_usd is non-decreasing in confidence.                                *)
C26_SizeIsClampOfLinearMap ==
    last.op = "build_order" =>
        /\ last.size = Clamp(LinearKx275(last.conf) * last.max_trade,
                             275 * SIZE_FLOOR_USD, 275 * last.max_trade)
        /\ last.size >= 275 * SIZE_FLOOR_USD
        /\ last.size <= 275 * last.max_trade
        /\ last.size <= last.size_next
(* what holds: the floor, the ceiling when it is not below the floor, and   *)
(* the monotonicity                                                         *)
C26_BoundsAndMonotone ==
    last.op = "build_order" =>
        /\ last.size >= 275 * SIZE_FLOOR_USD
        /\ last.max_trade >= SIZE_FLOOR_USD => last.size <= 275 * last.max_trade
        /\ last.size <= last.size_next
(* the two maps agree only at the ends of the domain *)
C26_LinearOnlyAtEnds ==
    (last.op = "build_order" /\ last.max_trade = MAX_TRADE_USD) =>
        ( last.size = Clamp(LinearKx275(last.conf) * last.max_trade,
                            275 * SIZE_FLOOR_USD, 275 * last.max_trade)
          <=> (last.conf <= MIN_CONF \/ last.conf >= 100) )

-----------------------------------------------------------------------------
(* runner.py:320-365, the guards of run_once (step 4), and the guard        *)
(* functions of risk/guardrails.py, checked under SpecGuards.  The regime   *)
(* label is an input of the step.                                           *)
MAX_POSITION_PCT == 80

(* risk/guardrails.py:23-34, position_limits; position_btc * price and      *)
(* equity_usd are in the same unit, max_pct is MAX_POSITION_PCT             *)
position_limits(position_btc, price, equity_usd, max_pct) ==
    LET pos_val == Max(0, position_btc) * Max(0, price)
    IN  IF equity_usd <= 0 THEN <<TRUE, "no_equity_cap">>
        ELSE IF 100 * pos_val > equity_usd * max_pct THEN <<FALSE, "pos_cap">>
        ELSE <<TRUE, "ok">>

(* risk/guardrails.py:36-76, daily_loss_cap with the three settings read    *)
(* from the environment, in whole USD and whole percent                     *)
daily_loss_cap(pnl_today_usd, abs_cap, cap_pct, eq_ref) ==
    IF abs_cap > 0 THEN
        IF pnl_today_usd <= 0 - abs_cap THEN <<FALSE, "hit_abs_cap">>
        ELSE <<TRUE, "abs_cap_ok">>
    ELSE IF cap_pct > 0 /\ eq_ref > 0 THEN
        IF pnl_today_usd < 0 /\ 100 * Abs(pnl_today_usd) > cap_pct * eq_ref
        THEN <<FALSE, "hit_pct_cap">>
        ELSE <<TRUE, "pct_cap_ok">>
    ELSE <<TRUE, "disabled">>

(* runner.py:21-32: the def of guardrails_pass_safe in runner.py replaces   *)
(* the name imported at runner.py:8-10, and its body calls                  *)
(* guardrails_pass_safe, which is itself.  The calls nest until the         *)
(* interpreter's recursion limit raises RecursionError in the innermost     *)
(* one; its caller's `except Exception` turns that into (False, ...), and   *)
(* every outer call returns that pair.                                      *)
RecursionLimit == 4
RECURSIVE guardrails_pass_safe(_, _, _, _, _)
guardrails_pass_safe(m, dec, portfolio_cash, now, depth) ==
    IF depth >= RecursionLimit THEN [raised |-> TRUE, ok |-> FALSE, reason |-> ""]
    ELSE LET inner == guardrails_pass_safe(m, dec, portfolio_cash, now, depth + 1)
         IN  IF inner.raised
             THEN [raised |-> FALSE, ok |-> FALSE,
                   reason |-> "guardrails_pass error"]
             ELSE inner

(* dict.get("pnl_today_usd", 0.0) on the state (runner.py:333) *)
PnlTodayOf(s) == IF "pnl_today_usd" \in DOMAIN s THEN s.pnl_today_usd ELSE 0

LossCaps == {0, 250}
LossPcts == {0, 5}
EquityRefs == {0, 10000}
EnvsGuards == [GLOBAL_PAUSE : {FALSE}, ALLOW_SIDE_SWITCH : {TRUE},
               DAILY_BUY_LIMIT_USD : {0},
               DAILY_LOSS_CAP_USD : LossCaps, MAX_DAILY_LOSS_PCT : LossPcts,
               EQUITY_REF_USD : EquityRefs]
(* states a run can have written: the cash in USD, and 0, 0.01 or 0.2 BTC *)
GuardStates ==
    {[DefaultState EXCEPT !.cash_usd = Usd(c), !.btc = b] :
        c \in {100, 3100, DEFAULT_CASH_USD}, b \in {0, 2200, 44000}}
(* a cash amount in whole USD, a quantity in 1/10000 BTC (the price unit is *)
(* 10000 USD per BTC, so quantity * price is in USD)                        *)
ToUsd(cash) == cash \div CashPerUsd
BtcE4(qty) == (qty * 1000) \div CashPerUsd

InitGuards ==
    /\ st \in GuardStates
    /\ trades = <<>>
    /\ ledger = <<>>
    /\ mem = FreshGlobals
    /\ env \in EnvsGuards
    /\ clock = 0
    /\ accepted = [buy |-> NoneVal, sell |-> NoneVal]
    /\ last = [op |-> "init"]

PositionLimits(position_btc, price, equity_usd) ==
    /\ last' = [op |-> "position_limits", btc |-> position_btc, price |-> price,
                equity |-> equity_usd,
                res |-> position_limits(position_btc, price, equity_usd,
                                        MAX_POSITION_PCT)]
    /\ UNCHANGED <<st, trades, ledger, mem, env, clock, accepted>>

DailyLossCap(pnl_today_usd) ==
    /\ last' = [op |-> "daily_loss_cap", pnl |-> pnl_today_usd,
                res |-> daily_loss_cap(pnl_today_usd, env.DAILY_LOSS_CAP_USD,
                                       env.MAX_DAILY_LOSS_PCT, env.EQUITY_REF_USD)]
    /\ UNCHANGED <<st, trades, ledger, mem, env, clock, accepted>>

(* runner.py:326-365: the guard list of a sized BUY or SELL decision, each  *)
(* result normalised, and the first guard that did not pass.  pnl_real is   *)
(* the day's realized+unrealized PnL of the account, which run_once does    *)
(* not compute: it reads the key pnl_today_usd of the state.                *)
RunOnceGuards(action0, size_usd, conf, regime_label, price, pnl_real) ==
    LET action == Upper(action0)
        cash == ToUsd(st.cash_usd)
        equity == cash + BtcE4(st.btc) * price
        inner == guardrails_pass(mem, action, size_usd, cash, clock,
                                 env.DAILY_BUY_LIMIT_USD)
        safe == guardrails_pass_safe(mem, action, cash, clock, 0)
        pause == _normalize_guard(global_pause(env))
        regime == regime_gate(action, conf, regime_label, NoneVal, FALSE)
        pos == _normalize_guard(
                   position_limits(BtcE4(st.btc), price, equity, MAX_POSITION_PCT))
        loss == _normalize_guard(
                    daily_loss_cap(PnlTodayOf(st), env.DAILY_LOSS_CAP_USD,
                                   env.MAX_DAILY_LOSS_PCT, env.EQUITY_REF_USD))
        names == {"global_pause", "guardrails_pass", "regime_gate"}
                 \cup (IF action = "BUY" THEN {"position_limits", "daily_loss_cap"}
                       ELSE {})
        blocked == IF ~pause[1] THEN "global_pause"
                   ELSE IF ~safe.ok THEN "guardrails_pass"
                   ELSE IF ~regime THEN "regime_gate"
                   ELSE IF action = "BUY" /\ ~pos[1] THEN "position_limits"
                   ELSE IF action = "BUY" /\ ~loss[1] THEN "daily_loss_cap"
                   ELSE ""
    IN  /\ last' = [op |-> "run_once_guards", side |-> action, size |-> size_usd,
                    regime |-> regime_label, price |-> price,
                    pnl_real |-> pnl_real, names |-> names,
                    inner_ok |-> inner.ok, safe_ok |-> safe.ok,
                    regime_ok |-> regime, pos_ok |-> pos[1], loss_ok |-> loss[1],
                    blocked |-> blocked]
        /\ UNCHANGED <<st, trades, ledger, mem, env, clock, accepted>>

PositionsBtc == {0 - 1, 0, 16, 17}
PositionPrices == {0 - 500, 0, 500}
Equities == {0 - 5000, 0, 5000, 10000, 10625}
Pnls == {0 - 600, 0 - 501, 0 - 500, 0 - 250, 0 - 249, 0, 100}

NextGuards ==
    \/ \E b \in PositionsBtc, p \in PositionPrices, e \in Equities :
           PositionLimits(b, p, e)
    \/ \E pnl \in Pnls : DailyLossCap(pnl)
    \/ \E action \in {"buy", "sell"}, regime_label \in {"bull", "chop"},
          price \in Prices, pnl \in Pnls :
           RunOnceGuards(action, CHOOSE s \in GateSizes : TRUE, 90,
                         regime_label, price, pnl)

SpecGuards == InitGuards /\ [][NextGuards]_vars

(* C28: for every position, price and equity, position_limits blocks        *)
(* exactly when btc*price > equity * max_position_fraction (80%) and passes *)
(* otherwise; run_once applies it to BUY decisions only, so a SELL is never *)
(* blocked by the position limit.                                           *)
C28_PositionLimitExact ==
    /\ last.op = "position_limits" =>
           (~last.res[1] <=>
               100 * (last.btc * last.price) > last.equity * MAX_POSITION_PCT)
    /\ (last.op = "run_once_guards" /\ last.side = "SELL") =>
           ("position_limits" \notin last.names /\ last.blocked # "position_limits")
(* with equity above zero and no negative argument the rule is exact *)
C28_ExactForPositiveEquity ==
    (last.op = "position_limits" /\ last.equity > 0
        /\ last.btc >= 0 /\ last.price >= 0) =>
           (~last.res[1] <=>
               100 * (last.btc * last.price) > last.equity * MAX_POSITION_PCT)
C28_SellNeverBlockedByPosition ==
    (last.op = "run_once_guards" /\ last.side = "SELL") =>
        ("position_limits" \notin last.names /\ last.blocked # "position_limits")
C28_BuyBlockedByPositionReached ==
    last.op = "run_once_guards" /\ last.side = "BUY" /\ ~last.pos_ok

(* the configured floor is breached by the day's PnL *)
LossFloorBreached(pnl, e) ==
    IF e.DAILY_LOSS_CAP_USD > 0 THEN pnl <= 0 - e.DAILY_LOSS_CAP_USD
    ELSE IF e.MAX_DAILY_LOSS_PCT > 0 /\ e.EQUITY_REF_USD > 0
         THEN pnl < 0 /\ 100 * (0 - pnl) > e.MAX_DAILY_LOSS_PCT * e.EQUITY_REF_USD
    ELSE FALSE

(* C29: in run_once a BUY is blocked by the daily-loss cap whenever today's *)
(* realized+unrealized PnL has breached the configured floor (absolute cap  *)
(* first, otherwise the percentage of the reference equity), and the gate   *)
(* passes when neither is configured.                                       *)
C29_LossCapBlocksBuy ==
    (last.op = "run_once_guards" /\ last.side = "BUY") =>
        (~last.loss_ok <=> LossFloorBreached(last.pnl_real, env))
(* daily_loss_cap itself follows the rule for the PnL it is given *)
C29_FunctionFollowsRule ==
    last.op = "daily_loss_cap" =>
        (~last.res[1] <=> LossFloorBreached(last.pnl, env))
C29_FunctionBlocksReached ==
    last.op = "daily_loss_cap" /\ ~last.res[1] /\ env.DAILY_LOSS_CAP_USD = 0
(* the guard of run_once never blocks *)
C29_GuardNeverBlocks ==
    last.op = "run_once_guards" => last.loss_ok

(* C30: whenever guardrails_pass does not raise, the runner's               *)
(* guardrails_pass_safe returns the same passed flag, so a BUY or SELL that *)
(* satisfies the per-side cooldown, the cash floor and the daily buy cap    *)
(* passes the guardrails_pass guard and, with the other guards passing,     *)
(* reaches execution.                                                       *)
C30_WrapperReturnsSame ==
    last.op = "run_once_guards" =>
        /\ last.safe_ok = last.inner_ok
        /\ ( /\ last.inner_ok /\ last.regime_ok
             /\ (last.side = "BUY" => (last.pos_ok /\ last.loss_ok)) )
               => last.blocked = ""
(* the guard blocks every decision *)
C30_GuardAlwaysBlocks ==
    last.op = "run_once_guards" =>
        (~last.safe_ok /\ last.blocked = "guardrails_pass")
C30_PassingDecisionReached ==
    /\ last.op = "run_once_guards" /\ last.inner_ok /\ last.regime_ok
    /\ last.side = "BUY" /\ last.pos_ok /\ last.loss_ok
====
